---- MODULE Spec2Model ----
(***************************************************************************)
(* Pipeline orchestration of signalhub: PipelineStatusTracker, the retry  *)
(* loop of AudioProcessingPipeline._retry_operation and the per-call run  *)
(* of AudioProcessingPipeline.process_audio_file                          *)
(* (src/backend/app/pipeline_orchestrator.py), the pipeline endpoints and *)
(* the transcription stream of src/backend/app/main.py, the feature flag  *)
(* and the lock-guarded model load of WhisperProcessor                    *)
(* (src/backend/app/whisper_processor.py) and LiveSessionManager          *)
(* (src/backend/app/live_mic.py).  The event bus behind the stream        *)
(* (live_events) follows section 4.4 of the specification.                *)
(***************************************************************************)
EXTENDS Integers, Sequences, FiniteSets, TLC

\* ------------------------------------------------------------------ bounds
\* Failed invocations of retry-wrapped operations, summed over all runs.
MaxFailures == 3
\* Tracker calls made by the stand-alone tracker driver.
MaxOps == 4
\* Clock ticks of the stand-alone tracker driver.
MaxTime == 2
\* Largest max_retries argument the stand-alone retry driver passes.
MaxRetriesArg == 3
\* Failed invocations of retry-wrapped operations while two runs interleave.
MaxConcFailures == 1
\* Chunks a live session is sent.
MaxChunks == 2
\* Largest index set_partial is called with.
MaxIndex == 1
\* Events published on the event bus, over all keys.
MaxPublishes == 3
\* Model loads that may fail.
MaxLoads == 2

\* --------------------------------------------------------------- constants
\* call ids (uuid4 values, pairwise distinct)
Calls == {"c1", "c2"}

\* the fixed step order of process_audio_file
Steps == <<"upload", "audio_processing", "transcription", "database_storage">>

StepNames == {Steps[i] : i \in 1..Len(Steps)}

\* Python None for a time or a duration
None == -1

NoError == [kind |-> "none", at |-> 0]

EmptyMap == [x \in {} |-> 0]

Put(f, k, v) == [x \in (DOMAIN f) \cup {k} |-> IF x = k THEN v ELSE f[x]]

VARIABLES
    step_status,    \* PipelineStatusTracker.step_status: call id -> step -> status
    step_timings,   \* PipelineStatusTracker.step_timings
    step_errors,    \* PipelineStatusTracker.step_errors
    step_results,   \* PipelineStatusTracker.step_results
    status_reply,   \* what the last get_pipeline_status call returned
    now,            \* datetime.now()
    ops,            \* tracker calls made by the stand-alone driver
    pc,             \* position of each process_audio_file coroutine
    running,        \* the coroutine the event loop is executing, or "none"
    cur_step,       \* the _step_* method a run is in
    err,            \* the exception propagating in a run
    raised,         \* the exception process_audio_file raised to its caller
    result,         \* the dictionary process_audio_file returned
    retry,          \* frame of the active _retry_operation call of a run
    db_status,      \* statuses written through db_integration.update_call_status
    failures,       \* failed invocations of retry-wrapped operations so far
    max_in_flight,  \* runs the callers of process_audio_file keep in flight at once
    transcription_enabled,  \* SIGNALHUB_ENABLE_TRANSCRIPTION == "1"
    faulty_operation,       \* the wrapped operation whose first two invocations raise
    failure_budget,         \* the failed invocations the environment produces at most
    invoked,        \* invocations of the upload collaborators, per run
    model_loaded,   \* WhisperProcessor._model_loaded
    model_loads,    \* model loads ensure_loaded has started
    sessions,       \* LiveSessionManager.sessions: session id -> LiveSession
    chunk_indices,  \* the indices add_raw_chunk returned, per session
    live_reply,     \* what the last LiveSessionManager call returned or raised
    streams,        \* the transcription_stream responses, per client
    published,      \* the events handed to event_bus.publish and complete, per key
    completed,      \* the keys event_bus.complete was called for
    load_lock,      \* WhisperProcessor._load_lock: the thread holding it, or "none"
    loading_in_progress,    \* WhisperProcessor._loading_in_progress
    caller,         \* the ensure_loaded call of each thread
    chunk_requests, \* the live_chunk requests the server has accepted
    debug_records   \* the records PipelineDebugLogger was asked to log, per run

trackerVars == <<step_status, step_timings, step_errors, step_results>>

\* the environment of a behaviour: fixed from the first state on
envVars == <<max_in_flight, transcription_enabled, faulty_operation, failure_budget>>

whisperVars == <<model_loaded, model_loads>>

liveVars == <<sessions, chunk_indices, live_reply>>

busVars == <<streams, published, completed>>

loadVars == <<load_lock, loading_in_progress, caller>>

micVars == <<chunk_requests>>

debugVars == <<debug_records>>

runVars == <<pc, running, cur_step, err, raised, result, retry, db_status, failures,
             invoked, envVars, whisperVars, liveVars, busVars, loadVars, micVars, debugVars>>

vars == <<step_status, step_timings, step_errors, step_results, status_reply,
          now, ops, pc, running, cur_step, err, raised, result, retry,
          db_status, failures, invoked, envVars, whisperVars, liveVars, busVars, loadVars, micVars, debugVars>>

\* ------------------------------------------------- PipelineStatusTracker
\* status of a step as a status query shows it; a step with no record is pending
StatusOf(c, s) ==
    IF c \in DOMAIN step_status /\ s \in DOMAIN step_status[c]
    THEN step_status[c][s] ELSE "pending"

\* a first start_step that builds new dictionaries instead of adding a key
start_step_resetting(call_id, step_name) ==
    LET known == call_id \in DOMAIN step_status
        st == IF known THEN step_status[call_id] ELSE EmptyMap
        tm == IF known THEN step_timings[call_id] ELSE EmptyMap
    IN  /\ step_status' = Put(IF known THEN step_status ELSE EmptyMap, call_id,
                              Put(st, step_name, "running"))
        /\ step_timings' = Put(IF known THEN step_timings ELSE EmptyMap, call_id,
               Put(tm, step_name,
                   [start_time |-> now, end_time |-> None, duration_seconds |-> None]))
        /\ step_errors' = IF known THEN step_errors ELSE Put(EmptyMap, call_id, EmptyMap)
        /\ step_results' = IF known THEN step_results ELSE Put(EmptyMap, call_id, EmptyMap)

start_step(call_id, step_name) ==
    LET known == call_id \in DOMAIN step_status
        st == IF known THEN step_status[call_id] ELSE EmptyMap
        tm == IF known THEN step_timings[call_id] ELSE EmptyMap
    IN  /\ step_status' = Put(step_status, call_id, Put(st, step_name, "running"))
        /\ step_timings' = Put(step_timings, call_id,
               Put(tm, step_name,
                   [start_time |-> now, end_time |-> None, duration_seconds |-> None]))
        /\ step_errors' = IF known THEN step_errors ELSE Put(step_errors, call_id, EmptyMap)
        /\ step_results' = IF known THEN step_results ELSE Put(step_results, call_id, EmptyMap)

\* complete_step recording the step whether it was started or not
complete_step_unguarded(call_id, step_name, res) ==
    LET known == call_id \in DOMAIN step_status
        started == known /\ step_name \in DOMAIN step_status[call_id]
        start_time == IF started THEN step_timings[call_id][step_name].start_time ELSE now
    IN  /\ step_status' = Put(step_status, call_id,
               Put(IF known THEN step_status[call_id] ELSE EmptyMap, step_name, "completed"))
        /\ step_timings' = Put(step_timings, call_id,
               Put(IF known THEN step_timings[call_id] ELSE EmptyMap, step_name,
                   [start_time |-> start_time, end_time |-> now,
                    duration_seconds |-> now - start_time]))
        /\ step_results' = Put(step_results, call_id,
               Put(IF known THEN step_results[call_id] ELSE EmptyMap, step_name, res))
        /\ step_errors' = IF known THEN step_errors ELSE Put(step_errors, call_id, EmptyMap)

\* complete_step leaving the tracker as it is
complete_step_dropped(call_id, step_name, res) ==
    UNCHANGED trackerVars

complete_step(call_id, step_name, res) ==
    IF call_id \in DOMAIN step_status /\ step_name \in DOMAIN step_status[call_id]
    THEN LET start_time == step_timings[call_id][step_name].start_time
         IN  /\ step_status' = [step_status EXCEPT ![call_id][step_name] = "completed"]
             /\ step_timings' = [step_timings EXCEPT ![call_id][step_name] =
                    [start_time |-> start_time, end_time |-> now,
                     duration_seconds |-> now - start_time]]
             /\ step_results' = [step_results EXCEPT ![call_id] = Put(@, step_name, res)]
             /\ UNCHANGED step_errors
    ELSE UNCHANGED trackerVars

fail_step(call_id, step_name, error) ==
    IF call_id \in DOMAIN step_status /\ step_name \in DOMAIN step_status[call_id]
    THEN LET start_time == step_timings[call_id][step_name].start_time
         IN  /\ step_status' = [step_status EXCEPT ![call_id][step_name] = "failed"]
             /\ step_timings' = [step_timings EXCEPT ![call_id][step_name] =
                    [start_time |-> start_time, end_time |-> now,
                     duration_seconds |-> now - start_time]]
             /\ step_errors' = [step_errors EXCEPT ![call_id] =
                    Put(@, step_name, [error |-> error, timestamp |-> now])]
             /\ UNCHANGED step_results
    ELSE UNCHANGED trackerVars

\* values() of one call's step_status dictionary
StatusValues(call_id) ==
    {step_status[call_id][s] : s \in DOMAIN step_status[call_id]}

\* the rule with the running test ahead of the failed test
get_overall_status_running_first(call_id) ==
    IF call_id \notin DOMAIN step_status THEN "not_found"
    ELSE LET statuses == StatusValues(call_id)
         IN  IF "running" \in statuses THEN "running"
             ELSE IF "failed" \in statuses THEN "failed"
             ELSE IF \A status \in statuses : status = "completed" THEN "completed"
             ELSE "partial"

get_overall_status(call_id) ==
    IF call_id \notin DOMAIN step_status THEN "not_found"
    ELSE LET statuses == StatusValues(call_id)
         IN  IF "failed" \in statuses THEN "failed"
             ELSE IF "running" \in statuses THEN "running"
             ELSE IF \A status \in statuses : status = "completed" THEN "completed"
             ELSE "partial"

RECURSIVE SumDurations(_, _)
SumDurations(tm, S) ==
    IF S = {} THEN 0
    ELSE LET s == CHOOSE x \in S : TRUE
             d == tm[s].duration_seconds
         IN  (IF d # None /\ d # 0 THEN d ELSE 0) + SumDurations(tm, S \ {s})

\* the total with the time a running step has been running so far added
calculate_total_duration_elapsed(call_id) ==
    IF call_id \notin DOMAIN step_timings THEN None
    ELSE LET tm == step_timings[call_id]
             open == {s \in DOMAIN tm : tm[s].end_time = None}
         IN  SumDurations(tm, DOMAIN tm \ open)
                 + SumDurations([s \in open |-> [duration_seconds |-> now - tm[s].start_time]],
                                open)

calculate_total_duration(call_id) ==
    IF call_id \notin DOMAIN step_timings THEN None
    ELSE SumDurations(step_timings[call_id], DOMAIN step_timings[call_id])

get_pipeline_status(call_id) ==
    IF call_id \notin DOMAIN step_status
    THEN [call_id |-> call_id, found |-> FALSE]
    ELSE [call_id |-> call_id, found |-> TRUE,
          step_status |-> step_status[call_id],
          step_timings |-> step_timings[call_id],
          step_errors |-> step_errors[call_id],
          step_results |-> DOMAIN step_results[call_id],
          overall_status |-> get_overall_status(call_id),
          total_duration |-> calculate_total_duration(call_id)]

NoReply == [call_id |-> "none", found |-> FALSE]

\* frame of one _retry_operation call: its arguments, loop variable and history
NewFrame(name, max_retries) ==
    [name |-> name, max_retries |-> max_retries, attempt |-> 0,
     invocations |-> 0, failed |-> 0, waits |-> <<>>, wake |-> 0,
     outcome |-> "none", value |-> NoError]

\* the collaborators _step_upload awaits before it writes a status
UploadCollaborators == {"validate_upload", "save_audio_file", "create_call_record"}

\* keys of the event bus: call ids and live session ids
Keys == {"k1", "k2"}

\* clients of the transcription stream endpoint
Clients == {"u1", "u2"}

\* a client that has not requested the stream
NoStream == [key |-> "none", state |-> "none", queue |-> <<>>, emitted |-> <<>>,
             joined_at |-> 0]

\* threads calling into the WhisperProcessor singleton
Threads == {"t1", "t2"}

\* a thread outside ensure_loaded
NoCall == [pc |-> "idle", timeout |-> FALSE, acquired |-> FALSE, via |-> "none",
           outcome |-> "none"]

\* the operations _step_audio_processing wraps in _retry_operation
AudioOperations == {"audio_analysis", "audio_conversion", "audio_segmentation"}

\* the live_chunk requests a behaviour follows
Requests == {"r1", "r2"}

\* a live_chunk request not received yet; `overlapped` records whether the
\* request was suspended while another one for its session was
NoRequest == [state |-> "none", session_id |-> "none", idx |-> None, overlapped |-> FALSE]

\* no LiveSessionManager call made yet
NoLiveReply == [op |-> "none", session_id |-> "none", outcome |-> "none"]

\* ------------------------------------------------------------------ Init
\* the state after construction: an empty tracker, no run started, the model
\* not loaded, no live session; the environment is given by the arguments
InitialState(in_flight, enabled, faulty, budget) ==
    /\ step_status = EmptyMap
    /\ step_timings = EmptyMap
    /\ step_errors = EmptyMap
    /\ step_results = EmptyMap
    /\ status_reply = NoReply
    /\ now = 0
    /\ ops = 0
    /\ pc = [c \in Calls |-> "idle"]
    /\ running = "none"
    /\ cur_step = [c \in Calls |-> "none"]
    /\ err = [c \in Calls |-> NoError]
    /\ raised = [c \in Calls |-> NoError]
    /\ result = [c \in Calls |-> NoReply]
    /\ retry = [c \in Calls |-> NewFrame("none", 0)]
    /\ db_status = [c \in Calls |-> <<>>]
    /\ failures = 0
    /\ max_in_flight = in_flight
    /\ transcription_enabled = enabled
    /\ faulty_operation = faulty
    /\ failure_budget = budget
    /\ invoked = [c \in Calls |-> [n \in UploadCollaborators |-> 0]]
    /\ model_loaded = FALSE
    /\ model_loads = 0
    /\ sessions = EmptyMap
    /\ chunk_indices = EmptyMap
    /\ live_reply = NoLiveReply
    /\ streams = [u \in Clients |-> NoStream]
    /\ published = [k \in Keys |-> <<>>]
    /\ completed = {}
    /\ load_lock = "none"
    /\ loading_in_progress = FALSE
    /\ caller = [t \in Threads |-> NoCall]
    /\ chunk_requests = [r \in Requests |-> NoRequest]
    /\ debug_records = [c \in Calls |-> <<>>]

\* one run at a time, transcription enabled, no planned fault
Init == InitialState(1, TRUE, "none", MaxFailures)

\* ------------------------------------- the tracker driven by any caller
TrackerStart(c, s) ==
    /\ ops < MaxOps
    /\ ops' = ops + 1
    /\ start_step(c, s)
    /\ UNCHANGED <<status_reply, now>>
    /\ UNCHANGED runVars

TrackerComplete(c, s) ==
    /\ ops < MaxOps
    /\ ops' = ops + 1
    /\ complete_step(c, s, "result")
    /\ UNCHANGED <<status_reply, now>>
    /\ UNCHANGED runVars

TrackerFail(c, s) ==
    /\ ops < MaxOps
    /\ ops' = ops + 1
    /\ fail_step(c, s, [kind |-> "caller", at |-> ops])
    /\ UNCHANGED <<status_reply, now>>
    /\ UNCHANGED runVars

\* a status query that leaves empty dictionaries behind for an unknown call
TrackerGetStatus_creating(c) ==
    /\ ops < MaxOps
    /\ ops' = ops + 1
    /\ status_reply' = get_pipeline_status(c)
    /\ IF c \in DOMAIN step_status THEN UNCHANGED trackerVars
       ELSE /\ step_status' = Put(step_status, c, EmptyMap)
            /\ step_timings' = Put(step_timings, c, EmptyMap)
            /\ step_errors' = Put(step_errors, c, EmptyMap)
            /\ step_results' = Put(step_results, c, EmptyMap)
    /\ UNCHANGED now
    /\ UNCHANGED runVars

TrackerGetStatus(c) ==
    /\ ops < MaxOps
    /\ ops' = ops + 1
    /\ status_reply' = get_pipeline_status(c)
    /\ UNCHANGED trackerVars
    /\ UNCHANGED now
    /\ UNCHANGED runVars

TrackerTick ==
    /\ now < MaxTime
    /\ now' = now + 1
    /\ UNCHANGED trackerVars
    /\ UNCHANGED <<status_reply, ops>>
    /\ UNCHANGED runVars

\* --------------------------------------------------- collaborators
\* Persistence.update_status: a successful call records the status of the call
update_call_status(call_id, status) ==
    db_status' = [db_status EXCEPT ![call_id] = Append(@, status)]

\* what a collaborator call can do: return, or raise
Outcomes == {"ok", "raise"}

\* what the environment of a wrapped operation can do.  transcribe_audio
\* catches every exception and returns a dictionary with
\* transcription_success True or False: the model load fails, the
\* transcription fails, or both work; the other wrapped operations return
\* or raise
OperationOutcomes(name) ==
    IF name = "transcription"
    THEN {"ok", "unsuccessful"} \cup
         (IF transcription_enabled /\ ~model_loaded THEN {"load_failed"} ELSE {})
    ELSE {"ok", "raise"}

\* WhisperProcessor.transcribe_audio in environment r: the feature flag is
\* tested first, then ensure_loaded, then the transcription itself
transcribe_audio(r) ==
    IF ~transcription_enabled THEN "disabled"
    ELSE IF ~model_loaded /\ r = "load_failed" THEN "load_failed"
    ELSE IF r = "ok" THEN "ok"
    ELSE "unsuccessful"

\* WhisperProcessor.ensure_loaded as transcribe_audio calls it: a model that
\* is loaded is left alone, otherwise a load starts and succeeds or fails
ensure_loaded(r) ==
    IF model_loaded
    THEN UNCHANGED whisperVars
    ELSE /\ model_loads' = model_loads + 1
         /\ model_loaded' = (r # "load_failed")

\* what a wrapped operation returns in environment r, and what it does to the model
operation_result(name, r) ==
    IF name = "transcription" THEN transcribe_audio(r) ELSE r

\* ensure_loaded called ahead of the feature flag test
operation_effect_loading_first(name, r) ==
    IF name = "transcription"
    THEN ensure_loaded(r)
    ELSE UNCHANGED whisperVars

operation_effect(name, r) ==
    IF name = "transcription" /\ transcription_enabled
    THEN ensure_loaded(r)
    ELSE UNCHANGED whisperVars

\* ------------------------------------------------- _retry_operation
\* the call `await self._retry_operation(lambda: ..., operation_name, max_retries)`
begin_retry(c, name, max_retries) ==
    /\ retry' = [retry EXCEPT ![c] = NewFrame(name, max_retries)]
    /\ pc' = [pc EXCEPT ![c] = "retry_attempt"]

\* giving up one attempt early
retries_exhausted_early(attempt, max_retries) == attempt >= max_retries - 1

\* `if attempt == max_retries`
retries_exhausted(attempt, max_retries) == attempt = max_retries

\* a backoff of half the time
wait_time_halved(attempt) == (2 ^ attempt) \div 2

\* a linear backoff
wait_time_linear(attempt) == 2 * attempt

\* `wait_time = 2 ** attempt`
wait_time(attempt) == 2 ^ attempt

\* re-raising the exception of the first invocation
exhausted_error_first(name, attempt) == [kind |-> name, at |-> 0]

\* the exception the bare `raise` of the except block re-raises
exhausted_error(name, attempt) == [kind |-> name, at |-> attempt]

\* a sleep that keeps the event loop (time.sleep)
sleep_owner_blocking(c) == c

\* `await asyncio.sleep(wait_time)`: the coroutine that holds the event loop
\* while run c sleeps
sleep_owner(c) == "none"

\* one pass of the for loop: invoke operation_func, then return, raise or sleep
retry_operation_attempt(c, r) ==
    /\ pc[c] = "retry_attempt"
    /\ running = c
    /\ r \in OperationOutcomes(retry[c].name)
    /\ LET f == retry[c] IN
       IF r # "raise"
       THEN /\ retry' = [retry EXCEPT ![c].invocations = @ + 1,
                                      ![c].outcome = "returned",
                                      ![c].value = [kind |-> operation_result(f.name, r),
                                                    at |-> f.attempt]]
            /\ operation_effect(f.name, r)
            /\ pc' = [pc EXCEPT ![c] = "retry_return"]
            /\ UNCHANGED <<running, err, failures>>
       ELSE /\ failures < failure_budget
            /\ UNCHANGED whisperVars
            /\ failures' = failures + 1
            /\ IF retries_exhausted(f.attempt, f.max_retries)
               THEN /\ retry' = [retry EXCEPT ![c].invocations = @ + 1,
                                              ![c].failed = @ + 1,
                                              ![c].outcome = "raised"]
                    /\ err' = [err EXCEPT ![c] = exhausted_error(f.name, f.attempt)]
                    /\ pc' = [pc EXCEPT ![c] = "retry_raise"]
                    /\ UNCHANGED running
               ELSE /\ retry' = [retry EXCEPT ![c].invocations = @ + 1,
                                              ![c].failed = @ + 1,
                                              ![c].waits = Append(@, wait_time(f.attempt)),
                                              ![c].wake = now + wait_time(f.attempt)]
                    /\ pc' = [pc EXCEPT ![c] = "retry_sleep"]
                    /\ running' = sleep_owner(c)
                    /\ UNCHANGED err
    /\ UNCHANGED trackerVars
    /\ UNCHANGED <<status_reply, now, ops, cur_step, raised, result, db_status,
                   invoked, envVars, liveVars, busVars, loadVars, micVars, debugVars>>

\* asyncio.sleep(wait_time) is over: the loop goes to its next attempt
retry_operation_wake(c) ==
    /\ pc[c] = "retry_sleep"
    /\ running = "none"
    /\ \A d \in Calls : pc[d] = "retry_sleep" => retry[c].wake <= retry[d].wake
    /\ now' = IF retry[c].wake > now THEN retry[c].wake ELSE now
    /\ retry' = [retry EXCEPT ![c].attempt = @ + 1]
    /\ pc' = [pc EXCEPT ![c] = "retry_attempt"]
    /\ running' = c
    /\ UNCHANGED trackerVars
    /\ UNCHANGED <<status_reply, ops, cur_step, err, raised, result, db_status, failures, invoked, envVars, whisperVars, liveVars, busVars, loadVars, micVars, debugVars>>

\* ------------------------------- _retry_operation driven by any caller
RetryCall(c, max_retries) ==
    /\ pc[c] = "idle"
    /\ running = "none"
    /\ running' = c
    /\ begin_retry(c, "operation", max_retries)
    /\ UNCHANGED trackerVars
    /\ UNCHANGED <<status_reply, now, ops, cur_step, err, raised, result, db_status, failures, invoked, envVars, whisperVars, liveVars, busVars, loadVars, micVars, debugVars>>

RetryDone(c) ==
    /\ pc[c] \in {"retry_return", "retry_raise"}
    /\ running = c
    /\ running' = "none"
    /\ pc' = [pc EXCEPT ![c] = "retry_finished"]
    /\ raised' = [raised EXCEPT ![c] = err[c]]
    /\ UNCHANGED trackerVars
    /\ UNCHANGED <<status_reply, now, ops, cur_step, err, result, retry, db_status, failures, invoked, envVars, whisperVars, liveVars, busVars, loadVars, micVars, debugVars>>

NextRetry ==
    \/ \E c \in Calls, m \in 0..MaxRetriesArg : RetryCall(c, m)
    \/ \E c \in Calls, r \in Outcomes : retry_operation_attempt(c, r)
    \/ \E c \in Calls : retry_operation_wake(c)
    \/ \E c \in Calls : RetryDone(c)

SpecRetry == Init /\ [][NextRetry]_vars

NextTracker ==
    \/ \E c \in Calls, s \in StepNames : TrackerStart(c, s)
    \/ \E c \in Calls, s \in StepNames : TrackerComplete(c, s)
    \/ \E c \in Calls, s \in StepNames : TrackerFail(c, s)
    \/ \E c \in Calls : TrackerGetStatus(c)
    \/ TrackerTick

SpecTracker == Init /\ [][NextTracker]_vars

\* the tracker with steps started for one call only: the other call id
\* stays unknown to it
NextTrackerOne ==
    \/ \E s \in StepNames : TrackerStart("c1", s)
    \/ \E c \in Calls, s \in StepNames : TrackerComplete(c, s)
    \/ \E c \in Calls, s \in StepNames : TrackerFail(c, s)
    \/ \E c \in Calls : TrackerGetStatus(c)
    \/ TrackerTick

SpecTrackerOne == Init /\ [][NextTrackerOne]_vars

\* ------------------------------- AudioProcessingPipeline.process_audio_file
\* Each action is a stretch of the coroutine between two awaits on a
\* collaborator or a sleep; `running` is the coroutine holding the event loop.

\* the runs that have started and neither returned nor raised
InFlight == {d \in Calls : pc[d] \notin {"idle", "returned", "raised"}}

\* the step order with audio_processing left out after upload
after_step_skipping(step) ==
    CASE step = "upload" -> "step_transcription"
      [] step = "audio_processing" -> "step_transcription"
      [] step = "transcription" -> "step_database_storage"
      [] OTHER -> "compile"

\* the try block returning after transcription, with no database_storage step
after_step_early_return(step) ==
    CASE step = "upload" -> "step_audio_processing"
      [] step = "audio_processing" -> "step_transcription"
      [] OTHER -> "compile"

\* the try block of process_audio_file: where the run goes on when a step returns
after_step(step) ==
    CASE step = "upload" -> "step_audio_processing"
      [] step = "audio_processing" -> "step_transcription"
      [] step = "transcription" -> "step_database_storage"
      [] OTHER -> "compile"

\* audio_processing writing the status of the step after it
step_db_status_ahead(step) ==
    CASE step = "upload" -> "uploaded"
      [] step = "audio_processing" -> "transcribing"
      [] step = "transcription" -> "transcribing"
      [] OTHER -> "completed"

\* the status each step writes through update_call_status on its way
step_db_status(step) ==
    CASE step = "upload" -> "uploaded"
      [] step = "audio_processing" -> "processing"
      [] step = "transcription" -> "transcribing"
      [] OTHER -> "completed"

\* enter the except block of the current _step_* method with exception e
StepRaise(c, e) ==
    /\ err' = [err EXCEPT ![c] = e]
    /\ pc' = [pc EXCEPT ![c] = "step_except"]
    /\ running' = c

\* call_id = uuid4(), log_pipeline_start, enter the try block
process_audio_file(c) ==
    /\ pc[c] = "idle"
    /\ Cardinality(InFlight) < max_in_flight
    /\ running = "none"
    /\ running' = c
    /\ pc' = [pc EXCEPT ![c] = "step_upload"]
    /\ UNCHANGED trackerVars
    /\ UNCHANGED <<status_reply, now, ops, cur_step, err, raised, result, retry,
                   db_status, failures, invoked, envVars, whisperVars, liveVars, busVars, loadVars, micVars>>
    /\ debug_records' = [debug_records EXCEPT ![c] = Append(@, "pipeline_started")]

\* _step_upload up to `await self.upload_handler.validate_upload(file)`
step_upload(c) ==
    /\ pc[c] = "step_upload"
    /\ running = c
    /\ start_step(c, "upload")
    /\ cur_step' = [cur_step EXCEPT ![c] = "upload"]
    /\ pc' = [pc EXCEPT ![c] = "await_validate"]
    /\ invoked' = [invoked EXCEPT ![c]["validate_upload"] = @ + 1]
    /\ running' = "none"
    /\ UNCHANGED <<status_reply, now, ops, err, raised, result, retry, db_status, failures,
                   envVars, whisperVars, liveVars, busVars, loadVars, micVars, debugVars>>

\* an is_valid False that is noted but not raised: the file is saved all the same
validate_upload_not_raising(c, v) ==
    /\ pc[c] = "await_validate"
    /\ running = "none"
    /\ CASE v = "valid" ->
              /\ pc' = [pc EXCEPT ![c] = "await_save"]
              /\ invoked' = [invoked EXCEPT ![c]["save_audio_file"] = @ + 1]
              /\ UNCHANGED <<running, err>>
         [] v = "invalid" ->
              /\ pc' = [pc EXCEPT ![c] = "await_save"]
              /\ invoked' = [invoked EXCEPT ![c]["save_audio_file"] = @ + 1]
              /\ err' = [err EXCEPT ![c] = [kind |-> "ValueError", at |-> 0]]
              /\ UNCHANGED running
         [] OTHER ->
              /\ StepRaise(c, [kind |-> "validate_upload", at |-> 0])
              /\ UNCHANGED invoked
    /\ UNCHANGED trackerVars
    /\ UNCHANGED <<status_reply, now, ops, cur_step, raised, result, retry,
                   db_status, failures, envVars, whisperVars, liveVars, busVars, loadVars, micVars, debugVars>>

\* validate_upload returned v: valid, invalid (is_valid False), or it raised
validate_upload(c, v) ==
    /\ pc[c] = "await_validate"
    /\ running = "none"
    /\ CASE v = "valid" ->
              /\ pc' = [pc EXCEPT ![c] = "await_save"]
              /\ invoked' = [invoked EXCEPT ![c]["save_audio_file"] = @ + 1]
              /\ UNCHANGED <<running, err>>
         [] v = "invalid" ->
              /\ StepRaise(c, [kind |-> "ValueError", at |-> 0])
              /\ UNCHANGED invoked
         [] OTHER ->
              /\ StepRaise(c, [kind |-> "validate_upload", at |-> 0])
              /\ UNCHANGED invoked
    /\ UNCHANGED trackerVars
    /\ UNCHANGED <<status_reply, now, ops, cur_step, raised, result, retry,
                   db_status, failures, envVars, whisperVars, liveVars, busVars, loadVars, micVars, debugVars>>

\* save_audio_file returned or raised; then next(self._get_db()) and
\* `await self.upload_handler.create_call_record(...)`
save_audio_file(c, r) ==
    /\ pc[c] = "await_save"
    /\ running = "none"
    /\ IF r = "ok"
       THEN /\ pc' = [pc EXCEPT ![c] = "await_create_record"]
            /\ invoked' = [invoked EXCEPT ![c]["create_call_record"] = @ + 1]
            /\ UNCHANGED <<running, err>>
       ELSE /\ StepRaise(c, [kind |-> "save_audio_file", at |-> 0])
            /\ UNCHANGED invoked
    /\ UNCHANGED trackerVars
    /\ UNCHANGED <<status_reply, now, ops, cur_step, raised, result, retry,
                   db_status, failures, envVars, whisperVars, liveVars, busVars, loadVars, micVars, debugVars>>

\* create_call_record returned or raised; then
\* `await self.db_integration.update_call_status(call_id, "uploaded")`
create_call_record(c, r) ==
    /\ pc[c] = "await_create_record"
    /\ running = "none"
    /\ IF r = "ok"
       THEN /\ pc' = [pc EXCEPT ![c] = "await_status_uploaded"]
            /\ UNCHANGED <<running, err>>
       ELSE StepRaise(c, [kind |-> "create_call_record", at |-> 0])
    /\ UNCHANGED trackerVars
    /\ UNCHANGED <<status_reply, now, ops, cur_step, raised, result, retry,
                   db_status, failures, invoked, envVars, whisperVars, liveVars, busVars, loadVars, micVars, debugVars>>

\* update_call_status(call_id, "uploaded") returned or raised; on return the
\* upload step is completed and _step_upload returns
status_uploaded(c, r) ==
    /\ pc[c] = "await_status_uploaded"
    /\ running = "none"
    /\ IF r = "ok"
       THEN /\ update_call_status(c, step_db_status("upload"))
            /\ complete_step(c, "upload", "upload_result")
            /\ pc' = [pc EXCEPT ![c] = after_step("upload")]
            /\ running' = c
            /\ UNCHANGED err
       ELSE /\ StepRaise(c, [kind |-> "update_call_status", at |-> 1])
            /\ UNCHANGED trackerVars
            /\ UNCHANGED db_status
    /\ UNCHANGED <<status_reply, now, ops, cur_step, raised, result, retry, failures, invoked, envVars, whisperVars, liveVars, busVars, loadVars, micVars, debugVars>>

\* _step_audio_processing up to `await update_call_status(call_id, "processing")`;
\* _get_file_path returns the path or raises
step_audio_processing(c, r) ==
    /\ pc[c] = "step_audio_processing"
    /\ running = c
    /\ start_step(c, "audio_processing")
    /\ cur_step' = [cur_step EXCEPT ![c] = "audio_processing"]
    /\ IF r = "ok"
       THEN /\ pc' = [pc EXCEPT ![c] = "await_status_processing"]
            /\ running' = "none"
            /\ UNCHANGED err
       ELSE StepRaise(c, [kind |-> "get_file_path", at |-> 2])
    /\ UNCHANGED <<status_reply, now, ops, raised, result, retry, db_status, failures, invoked, envVars, whisperVars, liveVars, busVars, loadVars, micVars, debugVars>>

\* update_call_status(call_id, "processing") returned or raised; on return the
\* retry-wrapped analysis starts
status_processing(c, r) ==
    /\ pc[c] = "await_status_processing"
    /\ running = "none"
    /\ IF r = "ok"
       THEN /\ update_call_status(c, step_db_status("audio_processing"))
            /\ begin_retry(c, "audio_analysis", 3)
            /\ running' = c
            /\ UNCHANGED err
       ELSE /\ StepRaise(c, [kind |-> "update_call_status", at |-> 2])
            /\ UNCHANGED <<retry, db_status>>
    /\ UNCHANGED trackerVars
    /\ UNCHANGED <<status_reply, now, ops, cur_step, raised, result, failures, invoked, envVars, whisperVars, liveVars, busVars, loadVars, micVars, debugVars>>

\* a retry-wrapped operation of _step_audio_processing returned: conversion
\* follows analysis, segmentation follows conversion, then the step completes
audio_processing_continue(c) ==
    /\ pc[c] = "retry_return"
    /\ running = c
    /\ cur_step[c] = "audio_processing"
    /\ CASE retry[c].name = "audio_analysis" ->
              /\ begin_retry(c, "audio_conversion", 2)
              /\ UNCHANGED trackerVars
         [] retry[c].name = "audio_conversion" ->
              /\ begin_retry(c, "audio_segmentation", 2)
              /\ UNCHANGED trackerVars
         [] OTHER ->
              /\ complete_step(c, "audio_processing", "processing_result")
              /\ pc' = [pc EXCEPT ![c] = after_step("audio_processing")]
              /\ UNCHANGED retry
    /\ UNCHANGED <<status_reply, now, ops, running, cur_step, err, raised, result,
                   db_status, failures, invoked, envVars, whisperVars, liveVars, busVars, loadVars, micVars, debugVars>>

\* _step_transcription recording its start only after its first await
step_transcription_unrecorded(c, r) ==
    /\ pc[c] = "step_transcription"
    /\ running = c
    /\ cur_step' = [cur_step EXCEPT ![c] = "transcription"]
    /\ IF r = "ok"
       THEN /\ pc' = [pc EXCEPT ![c] = "await_status_transcribing"]
            /\ running' = "none"
            /\ UNCHANGED err
       ELSE StepRaise(c, [kind |-> "get_file_path", at |-> 3])
    /\ UNCHANGED <<trackerVars, status_reply, now, ops, raised, result, retry, db_status, failures, invoked, envVars, whisperVars, liveVars, busVars, loadVars, micVars, debugVars>>

\* _step_transcription up to `await update_call_status(call_id, "transcribing")`;
\* _get_processed_audio_path returns a path or raises
step_transcription(c, r) ==
    /\ pc[c] = "step_transcription"
    /\ running = c
    /\ start_step(c, "transcription")
    /\ cur_step' = [cur_step EXCEPT ![c] = "transcription"]
    /\ IF r = "ok"
       THEN /\ pc' = [pc EXCEPT ![c] = "await_status_transcribing"]
            /\ running' = "none"
            /\ UNCHANGED err
       ELSE StepRaise(c, [kind |-> "get_file_path", at |-> 3])
    /\ UNCHANGED <<status_reply, now, ops, raised, result, retry, db_status, failures, invoked, envVars, whisperVars, liveVars, busVars, loadVars, micVars, debugVars>>

\* update_call_status(call_id, "transcribing") returned or raised; on return
\* the retry-wrapped transcription starts
status_transcribing(c, r) ==
    /\ pc[c] = "await_status_transcribing"
    /\ running = "none"
    /\ IF r = "ok"
       THEN /\ update_call_status(c, step_db_status("transcription"))
            /\ begin_retry(c, "transcription", 2)
            /\ running' = c
            /\ UNCHANGED err
       ELSE /\ StepRaise(c, [kind |-> "update_call_status", at |-> 3])
            /\ UNCHANGED <<retry, db_status>>
    /\ UNCHANGED trackerVars
    /\ UNCHANGED <<status_reply, now, ops, cur_step, raised, result, failures, invoked, envVars, whisperVars, liveVars, busVars, loadVars, micVars, debugVars>>

\* transcription returned; save_transcript (which catches its own errors) and
\* the step completes with the transcription result
transcription_continue(c) ==
    /\ pc[c] = "retry_return"
    /\ running = c
    /\ cur_step[c] = "transcription"
    /\ complete_step(c, "transcription", retry[c].value.kind)
    /\ pc' = [pc EXCEPT ![c] = after_step("transcription")]
    /\ UNCHANGED <<status_reply, now, ops, running, cur_step, err, raised, result,
                   retry, db_status, failures, invoked, envVars, whisperVars, liveVars, busVars, loadVars, micVars, debugVars>>

\* _step_database_storage up to the retry-wrapped store_transcript
step_database_storage(c) ==
    /\ pc[c] = "step_database_storage"
    /\ running = c
    /\ start_step(c, "database_storage")
    /\ cur_step' = [cur_step EXCEPT ![c] = "database_storage"]
    /\ begin_retry(c, "transcript_storage", 3)
    /\ UNCHANGED <<status_reply, now, ops, running, err, raised, result, db_status,
                   failures, invoked, envVars, whisperVars, liveVars, busVars, loadVars, micVars, debugVars>>

\* a retry-wrapped operation of _step_database_storage returned: store_analysis
\* follows store_transcript, then `await update_call_status(call_id, "completed")`
database_storage_continue(c) ==
    /\ pc[c] = "retry_return"
    /\ running = c
    /\ cur_step[c] = "database_storage"
    /\ IF retry[c].name = "transcript_storage"
       THEN /\ begin_retry(c, "analysis_storage", 3)
            /\ UNCHANGED running
       ELSE /\ pc' = [pc EXCEPT ![c] = "await_status_completed"]
            /\ running' = "none"
            /\ UNCHANGED retry
    /\ UNCHANGED trackerVars
    /\ UNCHANGED <<status_reply, now, ops, cur_step, err, raised, result, db_status,
                   failures, invoked, envVars, whisperVars, liveVars, busVars, loadVars, micVars, debugVars>>

\* the final update raising after the status completed has been written
status_completed_written_then_raise(c, r) ==
    /\ pc[c] = "await_status_completed"
    /\ running = "none"
    /\ update_call_status(c, step_db_status("database_storage"))
    /\ IF r = "ok"
       THEN /\ complete_step(c, "database_storage", "storage_result")
            /\ pc' = [pc EXCEPT ![c] = after_step("database_storage")]
            /\ running' = c
            /\ UNCHANGED err
       ELSE /\ StepRaise(c, [kind |-> "update_call_status", at |-> 4])
            /\ UNCHANGED trackerVars
    /\ UNCHANGED <<status_reply, now, ops, cur_step, raised, result, retry, failures,
                   invoked, envVars, whisperVars, liveVars, busVars, loadVars, micVars, debugVars>>

\* update_call_status(call_id, "completed") returned or raised; on return the
\* database_storage step completes and _step_database_storage returns
status_completed(c, r) ==
    /\ pc[c] = "await_status_completed"
    /\ running = "none"
    /\ IF r = "ok"
       THEN /\ update_call_status(c, step_db_status("database_storage"))
            /\ complete_step(c, "database_storage", "storage_result")
            /\ pc' = [pc EXCEPT ![c] = after_step("database_storage")]
            /\ running' = c
            /\ UNCHANGED err
       ELSE /\ StepRaise(c, [kind |-> "update_call_status", at |-> 4])
            /\ UNCHANGED trackerVars
            /\ UNCHANGED db_status
    /\ UNCHANGED <<status_reply, now, ops, cur_step, raised, result, retry, failures, invoked, envVars, whisperVars, liveVars, busVars, loadVars, micVars, debugVars>>

\* _compile_pipeline_result, log_pipeline_complete, return final_result
compile_pipeline_result(c) ==
    /\ pc[c] = "compile"
    /\ running = c
    /\ result' = [result EXCEPT ![c] =
           [call_id |-> c, found |-> TRUE, pipeline_status |-> "completed",
            processing_timeline |-> get_pipeline_status(c)]]
    /\ pc' = [pc EXCEPT ![c] = "returned"]
    /\ running' = "none"
    /\ UNCHANGED trackerVars
    /\ UNCHANGED <<status_reply, now, ops, cur_step, err, raised, retry, db_status,
                   failures, invoked, envVars, whisperVars, liveVars, busVars, loadVars, micVars>>
    /\ debug_records' = [debug_records EXCEPT ![c] = Append(@, "pipeline_completed")]

\* the except block of a _step_* method: fail_step, then
\* `await update_call_status(call_id, "failed", error=str(e))`
step_except(c) ==
    /\ pc[c] \in {"step_except", "retry_raise"}
    /\ running = c
    /\ fail_step(c, cur_step[c], err[c])
    /\ pc' = [pc EXCEPT ![c] = "await_status_failed"]
    /\ running' = "none"
    /\ UNCHANGED <<status_reply, now, ops, cur_step, err, raised, result, retry,
                   db_status, failures, invoked, envVars, whisperVars, liveVars, busVars, loadVars, micVars, debugVars>>

\* the except block swallowing the exception: the run goes on with the next step
step_status_failed_swallowing(c, r) ==
    /\ pc[c] = "await_status_failed"
    /\ running = "none"
    /\ IF r = "ok"
       THEN /\ update_call_status(c, "failed")
            /\ UNCHANGED err
       ELSE /\ err' = [err EXCEPT ![c] = [kind |-> "update_call_status", at |-> 5]]
            /\ UNCHANGED db_status
    /\ pc' = [pc EXCEPT ![c] = after_step(cur_step[c])]
    /\ running' = c
    /\ UNCHANGED trackerVars
    /\ UNCHANGED <<status_reply, now, ops, cur_step, raised, result, retry, failures,
                   invoked, envVars, whisperVars, liveVars, busVars, loadVars, micVars, debugVars>>

\* the update of the except block returned, and the bare `raise` re-raises the
\* step's exception; or the update raised, and its exception leaves the step
step_status_failed(c, r) ==
    /\ pc[c] = "await_status_failed"
    /\ running = "none"
    /\ IF r = "ok"
       THEN /\ update_call_status(c, "failed")
            /\ UNCHANGED err
       ELSE /\ err' = [err EXCEPT ![c] = [kind |-> "update_call_status", at |-> 5]]
            /\ UNCHANGED db_status
    /\ pc' = [pc EXCEPT ![c] = "pipeline_except"]
    /\ running' = c
    /\ UNCHANGED trackerVars
    /\ UNCHANGED <<status_reply, now, ops, cur_step, raised, result, retry, failures, invoked, envVars, whisperVars, liveVars, busVars, loadVars, micVars, debugVars>>

\* the except block of process_audio_file without its log_pipeline_error call
pipeline_except_unlogged(c) ==
    /\ pc[c] = "pipeline_except"
    /\ running = c
    /\ pc' = [pc EXCEPT ![c] = "await_handle_error"]
    /\ running' = "none"
    /\ UNCHANGED trackerVars
    /\ UNCHANGED <<status_reply, now, ops, cur_step, err, raised, result, retry,
                   db_status, failures, invoked, envVars, whisperVars, liveVars, busVars, loadVars, micVars, debugVars>>

\* the except block of process_audio_file: log_pipeline_error, then
\* _handle_pipeline_error up to its `await update_call_status(..., "failed")`
pipeline_except(c) ==
    /\ pc[c] = "pipeline_except"
    /\ running = c
    /\ pc' = [pc EXCEPT ![c] = "await_handle_error"]
    /\ running' = "none"
    /\ UNCHANGED trackerVars
    /\ UNCHANGED <<status_reply, now, ops, cur_step, err, raised, result, retry,
                   db_status, failures, invoked, envVars, whisperVars, liveVars, busVars, loadVars, micVars>>
    /\ debug_records' = [debug_records EXCEPT ![c] = Append(@, "pipeline_error")]

\* the update of _handle_pipeline_error returned, or raised and was logged;
\* then process_audio_file re-raises the exception it caught
handle_pipeline_error(c, r) ==
    /\ pc[c] = "await_handle_error"
    /\ running = "none"
    /\ IF r = "ok"
       THEN update_call_status(c, "failed")
       ELSE UNCHANGED db_status
    /\ raised' = [raised EXCEPT ![c] = err[c]]
    /\ pc' = [pc EXCEPT ![c] = "raised"]
    /\ UNCHANGED trackerVars
    /\ UNCHANGED <<status_reply, now, ops, running, cur_step, err, result, retry,
                   failures, invoked, envVars, whisperVars, liveVars, busVars, loadVars, micVars, debugVars>>

Next ==
    \/ \E c \in Calls : process_audio_file(c)
    \/ \E c \in Calls : step_upload(c)
    \/ \E c \in Calls, v \in {"valid", "invalid", "raise"} : validate_upload(c, v)
    \/ \E c \in Calls, r \in Outcomes : save_audio_file(c, r)
    \/ \E c \in Calls, r \in Outcomes : create_call_record(c, r)
    \/ \E c \in Calls, r \in Outcomes : status_uploaded(c, r)
    \/ \E c \in Calls, r \in Outcomes : step_audio_processing(c, r)
    \/ \E c \in Calls, r \in Outcomes : status_processing(c, r)
    \/ \E c \in Calls, r \in {"ok", "raise", "unsuccessful", "load_failed"} :
           retry_operation_attempt(c, r)
    \/ \E c \in Calls : retry_operation_wake(c)
    \/ \E c \in Calls : audio_processing_continue(c)
    \/ \E c \in Calls, r \in Outcomes : step_transcription(c, r)
    \/ \E c \in Calls, r \in Outcomes : status_transcribing(c, r)
    \/ \E c \in Calls : transcription_continue(c)
    \/ \E c \in Calls : step_database_storage(c)
    \/ \E c \in Calls : database_storage_continue(c)
    \/ \E c \in Calls, r \in Outcomes : status_completed(c, r)
    \/ \E c \in Calls : compile_pipeline_result(c)
    \/ \E c \in Calls : step_except(c)
    \/ \E c \in Calls, r \in Outcomes : step_status_failed(c, r)
    \/ \E c \in Calls : pipeline_except(c)
    \/ \E c \in Calls, r \in Outcomes : handle_pipeline_error(c, r)

Spec == Init /\ [][Next]_vars

\* ------------------------------------------- two runs in flight at once
\* asyncio.gather over two process_audio_file calls on one orchestrator
InitConc == InitialState(2, TRUE, "none", MaxConcFailures)

SpecConc == InitConc /\ [][Next]_vars

\* any step of run c
RunStep(c) ==
    \/ process_audio_file(c)
    \/ step_upload(c)
    \/ \E v \in {"valid", "invalid", "raise"} : validate_upload(c, v)
    \/ \E r \in Outcomes : save_audio_file(c, r)
    \/ \E r \in Outcomes : create_call_record(c, r)
    \/ \E r \in Outcomes : status_uploaded(c, r)
    \/ \E r \in Outcomes : step_audio_processing(c, r)
    \/ \E r \in Outcomes : status_processing(c, r)
    \/ \E r \in {"ok", "raise", "unsuccessful", "load_failed"} :
           retry_operation_attempt(c, r)
    \/ retry_operation_wake(c)
    \/ audio_processing_continue(c)
    \/ \E r \in Outcomes : step_transcription(c, r)
    \/ \E r \in Outcomes : status_transcribing(c, r)
    \/ transcription_continue(c)
    \/ step_database_storage(c)
    \/ database_storage_continue(c)
    \/ \E r \in Outcomes : status_completed(c, r)
    \/ compile_pipeline_result(c)
    \/ step_except(c)
    \/ \E r \in Outcomes : step_status_failed(c, r)
    \/ pipeline_except(c)
    \/ \E r \in Outcomes : handle_pipeline_error(c, r)

\* ----------------------------------- runs whose collaborators all succeed
\* the wrapped operation of run c is due to raise: it is the faulty
\* operation and has been invoked less than twice
FaultDue(c) ==
    /\ retry[c].name = faulty_operation
    /\ retry[c].attempt < 2

\* one pass of the retry loop in which the operation works
operation_succeeds(c) ==
    /\ ~FaultDue(c)
    /\ retry_operation_attempt(c, "ok")

\* one pass of the retry loop in which the faulty operation raises
operation_faults(c) ==
    /\ FaultDue(c)
    /\ retry_operation_attempt(c, "raise")

NextAllSucceed ==
    \/ \E c \in Calls : process_audio_file(c)
    \/ \E c \in Calls : step_upload(c)
    \/ \E c \in Calls : validate_upload(c, "valid")
    \/ \E c \in Calls : save_audio_file(c, "ok")
    \/ \E c \in Calls : create_call_record(c, "ok")
    \/ \E c \in Calls : status_uploaded(c, "ok")
    \/ \E c \in Calls : step_audio_processing(c, "ok")
    \/ \E c \in Calls : status_processing(c, "ok")
    \/ \E c \in Calls : operation_succeeds(c)
    \/ \E c \in Calls : audio_processing_continue(c)
    \/ \E c \in Calls : step_transcription(c, "ok")
    \/ \E c \in Calls : status_transcribing(c, "ok")
    \/ \E c \in Calls : transcription_continue(c)
    \/ \E c \in Calls : step_database_storage(c)
    \/ \E c \in Calls : database_storage_continue(c)
    \/ \E c \in Calls : status_completed(c, "ok")
    \/ \E c \in Calls : compile_pipeline_result(c)

\* two runs, transcription enabled, no collaborator call fails
InitAllSucceed == InitialState(2, TRUE, "none", 0)

\* the event loop runs a coroutine that is ready, and a collaborator that
\* succeeds returns
SpecAllSucceed == InitAllSucceed /\ [][NextAllSucceed]_vars /\ WF_vars(NextAllSucceed)

\* two runs with SIGNALHUB_ENABLE_TRANSCRIPTION unset; everything else succeeds
InitDisabled == InitialState(2, FALSE, "none", 0)

SpecDisabled == InitDisabled /\ [][NextAllSucceed]_vars /\ WF_vars(NextAllSucceed)

\* ------------------- runs in which one audio operation fails twice, then works
NextTransient ==
    \/ NextAllSucceed
    \/ \E c \in Calls : operation_faults(c)
    \/ \E c \in Calls : retry_operation_wake(c)

\* two runs; in each, the first two invocations of one audio operation raise
InitTransient ==
    \E op \in AudioOperations : InitialState(2, TRUE, op, 2 * Cardinality(Calls))

SpecTransient == InitTransient /\ [][NextTransient]_vars /\ WF_vars(NextTransient)

\* ------------------------------------------------- the pipeline endpoints
\* PipelineStatusTracker.__init__: the tracker of a new AudioProcessingPipeline
new_status_tracker ==
    [step_status |-> EmptyMap, step_timings |-> EmptyMap,
     step_errors |-> EmptyMap, step_results |-> EmptyMap]

\* get_pipeline_status of a tracker object
tracker_get_pipeline_status(tracker, call_id) ==
    IF call_id \notin DOMAIN tracker.step_status
    THEN [call_id |-> call_id, found |-> FALSE]
    ELSE LET statuses == {tracker.step_status[call_id][x] :
                             x \in DOMAIN tracker.step_status[call_id]}
         IN  [call_id |-> call_id, found |-> TRUE,
              step_status |-> tracker.step_status[call_id],
              step_timings |-> tracker.step_timings[call_id],
              step_errors |-> tracker.step_errors[call_id],
              overall_status |->
                  IF "failed" \in statuses THEN "failed"
                  ELSE IF "running" \in statuses THEN "running"
                  ELSE IF \A x \in statuses : x = "completed" THEN "completed"
                  ELSE "partial"]

\* GET /api/v1/pipeline/{call_id}/status: the handler builds an
\* AudioProcessingPipeline of its own and asks it for the status of call_id
get_pipeline_status_endpoint(call_id) ==
    /\ running = "none"
    /\ LET pipeline == [status_tracker |-> new_status_tracker]
       IN  status_reply' = tracker_get_pipeline_status(pipeline.status_tracker, call_id)
    /\ UNCHANGED trackerVars
    /\ UNCHANGED <<now, ops>>
    /\ UNCHANGED runVars

\* runs started through POST /api/v1/pipeline/upload, whose trackers are kept
\* in one map keyed by call id, and status requests
NextEndpoints ==
    \/ NextAllSucceed
    \/ \E c \in Calls : get_pipeline_status_endpoint(c)

SpecEndpoints == InitAllSucceed /\ [][NextEndpoints]_vars

\* ---------------------------------------------------- LiveSessionManager
\* session ids (uuid4 values, pairwise distinct); an id is unknown to the
\* manager until start has produced it
SessionIds == {"s1", "s2"}

\* suffixes of the raw paths handed to add_raw_chunk: live_chunk names the
\* raw file after the upload, "chunk" when the upload has no file name
Suffixes == {""}

\* Python None passed as the text of a partial
NoText == <<"None">>

\* partial texts, as sequences of characters; one of them starts with a space
Texts == {<<>>, <<"a">>, <<" ", "b">>}

\* every text taken for the empty one
text_dropped(text) == <<>>

\* `text or ""`
text_or_empty(text) == IF text = NoText \/ text = <<>> THEN <<>> ELSE text

\* `raw_path.suffix or ".bin"`
suffix_or_bin(suffix) == IF suffix = "" THEN ".bin" ELSE suffix

\* str.strip() on a sequence of characters
RECURSIVE strip(_)
strip(t) ==
    IF t = <<>> THEN <<>>
    ELSE IF Head(t) = " " THEN strip(Tail(t))
    ELSE IF t[Len(t)] = " " THEN strip(SubSeq(t, 1, Len(t) - 1))
    ELSE t

\* the join taken from the last slot to the first
RECURSIVE join_reversed(_)
join_reversed(partials) ==
    IF partials = <<>> THEN <<>>
    ELSE LET n == Len(partials)
             rest == join_reversed(SubSeq(partials, 1, n - 1))
             kept == \E i \in 1..(n - 1) : partials[i] # <<>>
         IN  IF partials[n] = <<>> THEN rest
             ELSE IF kept THEN partials[n] \o <<" ">> \o rest
             ELSE partials[n]

\* `" ".join([p for p in partials if p])`
RECURSIVE join_nonempty(_)
join_nonempty(partials) ==
    IF partials = <<>> THEN <<>>
    ELSE LET rest == join_nonempty(Tail(partials))
             kept == \E i \in 2..Len(partials) : partials[i] # <<>>
         IN  IF Head(partials) = <<>> THEN rest
             ELSE IF kept THEN Head(partials) \o <<" ">> \o rest
             ELSE Head(partials)

\* the list with "" appended until it has n entries
RECURSIVE pad(_, _)
pad(partials, n) ==
    IF Len(partials) >= n THEN partials ELSE pad(Append(partials, <<>>), n)

LiveReply(op, session_id, outcome, value) ==
    [op |-> op, session_id |-> session_id, outcome |-> outcome, value |-> value]

\* LiveSessionManager.start; sid is the uuid4 value drawn
live_start(sid) ==
    /\ sid \notin DOMAIN sessions
    /\ sessions' = Put(sessions, sid, [chunks |-> <<>>, partials |-> <<>>])
    /\ chunk_indices' = Put(chunk_indices, sid, <<>>)
    /\ live_reply' = LiveReply("start", sid, "ok", <<>>)

\* add_raw_chunk with the padding loop left out
add_raw_chunk_unpadded(session_id, suffix, moved) ==
    IF session_id \notin DOMAIN sessions
    THEN /\ live_reply' = LiveReply("add_raw_chunk", session_id, "KeyError", <<>>)
         /\ UNCHANGED <<sessions, chunk_indices>>
    ELSE LET sess == sessions[session_id]
             idx == Len(sess.chunks)
             dest == [chunk |-> idx, ext |-> suffix_or_bin(suffix)]
         IN  IF ~moved
             THEN /\ live_reply' = LiveReply("add_raw_chunk", session_id, "OSError", <<>>)
                  /\ UNCHANGED <<sessions, chunk_indices>>
             ELSE /\ sessions' = [sessions EXCEPT ![session_id].chunks = Append(@, dest)]
                  /\ chunk_indices' = [chunk_indices EXCEPT ![session_id] = Append(@, idx)]
                  /\ live_reply' = LiveReply("add_raw_chunk", session_id, "ok", idx)

\* add_raw_chunk taking the index from the partial slots
add_raw_chunk_by_partials(session_id, suffix, moved) ==
    IF session_id \notin DOMAIN sessions
    THEN /\ live_reply' = LiveReply("add_raw_chunk", session_id, "KeyError", <<>>)
         /\ UNCHANGED <<sessions, chunk_indices>>
    ELSE LET sess == sessions[session_id]
             idx == Len(sess.partials)
             dest == [chunk |-> idx, ext |-> suffix_or_bin(suffix)]
             chunks == Append(sess.chunks, dest)
         IN  IF ~moved
             THEN /\ live_reply' = LiveReply("add_raw_chunk", session_id, "OSError", <<>>)
                  /\ UNCHANGED <<sessions, chunk_indices>>
             ELSE /\ sessions' = [sessions EXCEPT ![session_id] =
                         [chunks |-> chunks, partials |-> pad(sess.partials, Len(chunks))]]
                  /\ chunk_indices' = [chunk_indices EXCEPT ![session_id] = Append(@, idx)]
                  /\ live_reply' = LiveReply("add_raw_chunk", session_id, "ok", idx)

\* add_raw_chunk moving the file without appending it to the chunks
add_raw_chunk_not_appending(session_id, suffix, moved) ==
    IF session_id \notin DOMAIN sessions
    THEN /\ live_reply' = LiveReply("add_raw_chunk", session_id, "KeyError", <<>>)
         /\ UNCHANGED <<sessions, chunk_indices>>
    ELSE LET sess == sessions[session_id]
             idx == Len(sess.chunks)
         IN  IF ~moved
             THEN /\ live_reply' = LiveReply("add_raw_chunk", session_id, "OSError", <<>>)
                  /\ UNCHANGED <<sessions, chunk_indices>>
             ELSE /\ UNCHANGED sessions
                  /\ chunk_indices' = [chunk_indices EXCEPT ![session_id] = Append(@, idx)]
                  /\ live_reply' = LiveReply("add_raw_chunk", session_id, "ok", idx)

\* LiveSessionManager.add_raw_chunk; `moved` tells whether raw_path.replace(dest)
\* worked or raised OSError
add_raw_chunk(session_id, suffix, moved) ==
    IF session_id \notin DOMAIN sessions
    THEN /\ live_reply' = LiveReply("add_raw_chunk", session_id, "KeyError", <<>>)
         /\ UNCHANGED <<sessions, chunk_indices>>
    ELSE LET sess == sessions[session_id]
             idx == Len(sess.chunks)
             dest == [chunk |-> idx, ext |-> suffix_or_bin(suffix)]
             chunks == Append(sess.chunks, dest)
         IN  IF ~moved
             THEN /\ live_reply' = LiveReply("add_raw_chunk", session_id, "OSError", <<>>)
                  /\ UNCHANGED <<sessions, chunk_indices>>
             ELSE /\ sessions' = [sessions EXCEPT ![session_id] =
                         [chunks |-> chunks, partials |-> pad(sess.partials, Len(chunks))]]
                  /\ chunk_indices' = [chunk_indices EXCEPT ![session_id] = Append(@, idx)]
                  /\ live_reply' = LiveReply("add_raw_chunk", session_id, "ok", idx)

\* LiveSessionManager.set_partial; a negative idx counts from the end of the
\* list, as Python list indexing does, and raises IndexError beyond its start
set_partial(session_id, idx, text) ==
    IF session_id \notin DOMAIN sessions
    THEN /\ live_reply' = LiveReply("set_partial", session_id, "KeyError", <<>>)
         /\ UNCHANGED <<sessions, chunk_indices>>
    ELSE LET padded == pad(sessions[session_id].partials, idx + 1)
             pos == IF idx >= 0 THEN idx + 1 ELSE Len(padded) + idx + 1
         IN  IF pos < 1
             THEN /\ live_reply' = LiveReply("set_partial", session_id, "IndexError", <<>>)
                  /\ UNCHANGED <<sessions, chunk_indices>>
             ELSE /\ sessions' = [sessions EXCEPT ![session_id].partials =
                         [padded EXCEPT ![pos] = text_or_empty(text)]]
                  /\ live_reply' = LiveReply("set_partial", session_id, "ok", <<>>)
                  /\ UNCHANGED chunk_indices

\* stop answering an unknown session with an empty final text
live_stop_lenient(session_id) ==
    /\ live_reply' =
           LiveReply("stop", session_id, "ok",
                     IF session_id \notin DOMAIN sessions THEN <<>>
                     ELSE strip(join_nonempty(sessions[session_id].partials)))
    /\ UNCHANGED <<sessions, chunk_indices>>

\* stop clearing the partials it has joined
live_stop_clearing(session_id) ==
    IF session_id \notin DOMAIN sessions
    THEN /\ live_reply' = LiveReply("stop", session_id, "KeyError", <<>>)
         /\ UNCHANGED <<sessions, chunk_indices>>
    ELSE /\ live_reply' = LiveReply("stop", session_id, "ok",
                                    strip(join_nonempty(sessions[session_id].partials)))
         /\ sessions' = [sessions EXCEPT ![session_id].partials = <<>>]
         /\ UNCHANGED chunk_indices

\* LiveSessionManager.stop
live_stop(session_id) ==
    /\ live_reply' =
           IF session_id \notin DOMAIN sessions
           THEN LiveReply("stop", session_id, "KeyError", <<>>)
           ELSE LiveReply("stop", session_id, "ok",
                          strip(join_nonempty(sessions[session_id].partials)))
    /\ UNCHANGED <<sessions, chunk_indices>>

\* the variables no LiveSessionManager call touches
pipelineVars == <<step_status, step_timings, step_errors, step_results, status_reply,
                  now, ops, pc, running, cur_step, err, raised, result, retry,
                  db_status, failures, invoked, envVars, whisperVars, busVars, loadVars, micVars, debugVars>>

\* ---------------------------- LiveSessionManager driven by any caller
LiveStart(sid) ==
    /\ live_start(sid)
    /\ UNCHANGED pipelineVars

LiveAddChunk(sid, suffix, moved) ==
    /\ sid \in DOMAIN sessions => Len(sessions[sid].chunks) < MaxChunks
    /\ add_raw_chunk(sid, suffix, moved)
    /\ UNCHANGED pipelineVars

LiveSetPartial(sid, idx, text) ==
    /\ set_partial(sid, idx, text)
    /\ UNCHANGED pipelineVars

LiveStop(sid) ==
    /\ live_stop(sid)
    /\ UNCHANGED pipelineVars

NextLive ==
    \/ \E sid \in SessionIds : LiveStart(sid)
    \/ \E sid \in SessionIds, suffix \in Suffixes, moved \in BOOLEAN :
           LiveAddChunk(sid, suffix, moved)
    \/ \E sid \in SessionIds, idx \in (0 - 1)..MaxIndex, text \in Texts \cup {NoText} :
           LiveSetPartial(sid, idx, text)
    \/ \E sid \in SessionIds : LiveStop(sid)

SpecLive == Init /\ [][NextLive]_vars

\* the manager with one session started: the other id stays unknown to it
NextLiveOne ==
    \/ LiveStart("s1")
    \/ \E sid \in SessionIds, suffix \in Suffixes, moved \in BOOLEAN :
           LiveAddChunk(sid, suffix, moved)
    \/ \E sid \in SessionIds, idx \in (0 - 1)..MaxIndex, text \in Texts \cup {NoText} :
           LiveSetPartial(sid, idx, text)
    \/ \E sid \in SessionIds : LiveStop(sid)

SpecLiveOne == Init /\ [][NextLiveOne]_vars

\* ------------------------------------------------ transcription stream
\* an event dictionary: its "type" and what tells it from the other events
\* of its key (the chunk_index of a partial)
Event(type, n) == [type |-> type, seq |-> n]

\* sse_format(event_type, data): the `event:` header and the `data:` body
sse_format(event_type, data) == [event |-> event_type, data |-> data]

\* publishes made so far, over all keys
TotalPublished == Len(published["k1"]) + Len(published["k2"])

\* subscribe registering the subscriber whatever happened to the key before
subscribe_unaware(u, key) ==
    streams' = [streams EXCEPT ![u] =
                   [@ EXCEPT !.state = "subscribed",
                             !.queue = <<>>,
                             !.joined_at = Len(published[key])]]

\* event_bus.subscribe(key), as the generator of client u starts iterating
\* it: the subscriber is registered with an empty buffer; for a key that was
\* completed the sequence is over at once
subscribe(u, key) ==
    streams' = [streams EXCEPT ![u] =
                   [@ EXCEPT !.state = IF key \in completed THEN "ended" ELSE "subscribed",
                             !.queue = <<>>,
                             !.joined_at = Len(published[key])]]

\* event_bus.publish(key, event): the event goes to the buffer of every
\* subscriber registered for the key; nothing is kept for later subscribers
publish(key, evt) ==
    /\ streams' = [u \in Clients |->
                      IF streams[u].state = "subscribed" /\ streams[u].key = key
                      THEN [streams[u] EXCEPT !.queue = Append(@, evt)]
                      ELSE streams[u]]
    /\ published' = [published EXCEPT ![key] = Append(@, evt)]

\* event_bus.complete(key): publishes the terminal event of the key
complete(key) ==
    /\ publish(key, Event("complete", Len(published[key]) + 1))
    /\ completed' = completed \cup {key}

\* whether the sequence subscribe returned is over once it has yielded evt
sequence_ends_after(evt) == evt.type = "complete"

\* the variables the stream endpoint and the bus do not touch
outsideBusVars == <<step_status, step_timings, step_errors, step_results, status_reply,
                    now, ops, pc, running, cur_step, err, raised, result, retry,
                    db_status, failures, invoked, envVars, whisperVars, liveVars, loadVars, micVars, debugVars>>

\* GET /api/v1/transcription/stream: the response is built around a fresh
\* event_generator(); nothing is sent yet
transcription_stream(u, call_id) ==
    /\ streams[u].state = "none"
    /\ streams' = [streams EXCEPT ![u] = [NoStream EXCEPT !.key = call_id, !.state = "open"]]
    /\ UNCHANGED <<published, completed>>
    /\ UNCHANGED outsideBusVars

\* event_generator going on to subscribe without the first yield
event_generator_ping_skipped(u) ==
    /\ streams[u].state = "open"
    /\ streams' = [streams EXCEPT ![u].state = "pinged"]
    /\ UNCHANGED <<published, completed>>
    /\ UNCHANGED outsideBusVars

\* event_generator: the first yield
event_generator_ping(u) ==
    /\ streams[u].state = "open"
    /\ streams' = [streams EXCEPT ![u] =
                       [@ EXCEPT !.state = "pinged",
                                 !.emitted = Append(@, sse_format("ping", Event("ping", 0)))]]
    /\ UNCHANGED <<published, completed>>
    /\ UNCHANGED outsideBusVars

\* event_generator resumed after the ping: `async for evt in
\* event_bus.subscribe(call_id)` starts
event_generator_subscribe(u) ==
    /\ streams[u].state = "pinged"
    /\ subscribe(u, streams[u].key)
    /\ UNCHANGED <<published, completed>>
    /\ UNCHANGED outsideBusVars

\* event_generator yielding the newest buffered event only
event_generator_next_latest(u) ==
    /\ streams[u].state = "subscribed"
    /\ streams[u].queue # <<>>
    /\ LET evt == streams[u].queue[Len(streams[u].queue)]
           evt_type == evt.type
       IN  streams' = [streams EXCEPT ![u] =
               [@ EXCEPT !.emitted = Append(@, sse_format(evt_type, evt)),
                         !.queue = <<>>,
                         !.state = IF sequence_ends_after(evt) THEN "ended" ELSE @]]
    /\ UNCHANGED <<published, completed>>
    /\ UNCHANGED outsideBusVars

\* event_generator yielding partial events only
event_generator_next_partials(u) ==
    /\ streams[u].state = "subscribed"
    /\ streams[u].queue # <<>>
    /\ LET evt == Head(streams[u].queue)
           evt_type == evt.type
       IN  streams' = [streams EXCEPT ![u] =
               [@ EXCEPT !.emitted = IF evt_type = "partial"
                                     THEN Append(@, sse_format(evt_type, evt)) ELSE @,
                         !.queue = IF sequence_ends_after(evt) THEN <<>> ELSE Tail(@),
                         !.state = IF sequence_ends_after(evt) THEN "ended" ELSE @]]
    /\ UNCHANGED <<published, completed>>
    /\ UNCHANGED outsideBusVars

\* event_generator: one turn of the `async for` loop
event_generator_next(u) ==
    /\ streams[u].state = "subscribed"
    /\ streams[u].queue # <<>>
    /\ LET evt == Head(streams[u].queue)
           evt_type == evt.type
       IN  streams' = [streams EXCEPT ![u] =
               [@ EXCEPT !.emitted = Append(@, sse_format(evt_type, evt)),
                         !.queue = IF sequence_ends_after(evt) THEN <<>> ELSE Tail(@),
                         !.state = IF sequence_ends_after(evt) THEN "ended" ELSE @]]
    /\ UNCHANGED <<published, completed>>
    /\ UNCHANGED outsideBusVars

\* a partial published by the mock producer or by live_chunk
publish_partial(key) ==
    /\ TotalPublished < MaxPublishes
    /\ publish(key, Event("partial", Len(published[key]) + 1))
    /\ UNCHANGED completed
    /\ UNCHANGED outsideBusVars

\* event_bus.complete called by the mock producer or by live_stop
publish_complete(key) ==
    /\ TotalPublished < MaxPublishes
    /\ complete(key)
    /\ UNCHANGED outsideBusVars

\* the steps of the stream of client u
StreamStep(u) ==
    \/ event_generator_ping(u)
    \/ event_generator_subscribe(u)
    \/ event_generator_next(u)

NextBus ==
    \/ \E u \in Clients, k \in Keys : transcription_stream(u, k)
    \/ \E u \in Clients : event_generator_ping(u)
    \/ \E u \in Clients : event_generator_subscribe(u)
    \/ \E u \in Clients : event_generator_next(u)
    \/ \E k \in Keys : publish_partial(k)
    \/ \E k \in Keys : publish_complete(k)

SpecBus == Init /\ [][NextBus]_vars

\* every client keeps reading its stream
SpecBusFair == Init /\ [][NextBus]_vars /\ \A u \in Clients : WF_vars(StreamStep(u))

\* ------------------------------------------- live microphone endpoints
\* the key a live session publishes under: `session_id acts as call_id`
stream_key(session_id) == IF session_id = "s1" THEN "k1" ELSE "k2"

\* the variables the live endpoints do not touch
outsideMicVars == <<step_status, step_timings, step_errors, step_results, status_reply,
                    now, ops, pc, running, cur_step, err, raised, result, retry,
                    db_status, failures, invoked, envVars, whisperVars, loadVars, debugVars>>

\* no live_chunk request is between its awaits: the event loop can take up
\* another request
MicLoopFree == \A r \in Requests : chunk_requests[r].state # "added"

\* POST /api/v1/live/start
live_start_endpoint(sid) ==
    /\ MicLoopFree
    /\ live_start(sid)
    /\ UNCHANGED <<busVars, micVars>>
    /\ UNCHANGED outsideMicVars

\* POST /api/v1/live/chunk up to `await file.read()`: an unknown session is
\* answered 404, otherwise the request is suspended reading its upload
live_chunk_begin(r, session_id) ==
    /\ MicLoopFree
    /\ chunk_requests[r].state = "none"
    /\ IF session_id \notin DOMAIN sessions
       THEN chunk_requests' = [chunk_requests EXCEPT ![r] =
                [NoRequest EXCEPT !.state = "not_found", !.session_id = session_id]]
       ELSE LET others == {q \in Requests \ {r} :
                               /\ chunk_requests[q].state = "reading"
                               /\ chunk_requests[q].session_id = session_id}
            IN  chunk_requests' = [q \in Requests |->
                    IF q = r
                    THEN [NoRequest EXCEPT !.state = "reading", !.session_id = session_id,
                                           !.overlapped = (others # {})]
                    ELSE IF q \in others
                    THEN [chunk_requests[q] EXCEPT !.overlapped = TRUE]
                    ELSE chunk_requests[q]]
    /\ UNCHANGED <<liveVars, busVars>>
    /\ UNCHANGED outsideMicVars

\* live_chunk resumed with the upload read: the raw file is written and
\* add_raw_chunk is called; an exception ends the request with status 500
live_chunk_add(r, suffix, moved) ==
    /\ MicLoopFree
    /\ chunk_requests[r].state = "reading"
    /\ add_raw_chunk(chunk_requests[r].session_id, suffix, moved)
    /\ chunk_requests' = [chunk_requests EXCEPT ![r] =
           IF live_reply'.outcome = "ok"
           THEN [@ EXCEPT !.state = "added", !.idx = live_reply'.value]
           ELSE [@ EXCEPT !.state = "failed"]]
    /\ UNCHANGED busVars
    /\ UNCHANGED outsideMicVars

\* the rest of live_chunk, which has no await before the publish: the chunk is
\* converted and transcribed (`failed` tells whether one of the two raised),
\* the text is stored with set_partial and the partial event is published
live_chunk_finish(r, failed, text) ==
    /\ chunk_requests[r].state = "added"
    /\ IF failed
       THEN /\ chunk_requests' = [chunk_requests EXCEPT ![r].state = "failed"]
            /\ UNCHANGED <<liveVars, busVars>>
       ELSE /\ set_partial(chunk_requests[r].session_id, chunk_requests[r].idx, text)
            /\ publish(stream_key(chunk_requests[r].session_id),
                       Event("partial", chunk_requests[r].idx))
            /\ UNCHANGED completed
            /\ chunk_requests' = [chunk_requests EXCEPT ![r].state = "done"]
    /\ UNCHANGED outsideMicVars

\* POST /api/v1/live/stop: stop, then event_bus.complete under the session id;
\* the KeyError of an unknown session is answered 404
live_stop_endpoint(session_id) ==
    /\ MicLoopFree
    /\ TotalPublished < MaxPublishes
    /\ live_stop(session_id)
    /\ IF session_id \in DOMAIN sessions
       THEN complete(stream_key(session_id))
       ELSE UNCHANGED busVars
    /\ UNCHANGED micVars
    /\ UNCHANGED outsideMicVars

NextMic ==
    \/ \E sid \in SessionIds : live_start_endpoint(sid)
    \/ \E r \in Requests, sid \in SessionIds : live_chunk_begin(r, sid)
    \/ \E r \in Requests, suffix \in Suffixes, moved \in BOOLEAN : live_chunk_add(r, suffix, moved)
    \/ \E r \in Requests, failed \in BOOLEAN, text \in {<<>>, <<"a">>} :
           live_chunk_finish(r, failed, text)
    \/ \E sid \in SessionIds : live_stop_endpoint(sid)

SpecMic == Init /\ [][NextMic]_vars

\* ------------------------------- WhisperProcessor called from threads
\* the variables the model load does not touch
outsideLoadVars == <<step_status, step_timings, step_errors, step_results, status_reply,
                     now, ops, pc, running, cur_step, err, raised, result, retry,
                     db_status, failures, invoked, envVars, liveVars, busVars, micVars, debugVars>>

\* thread t returns from its call with the outcome
Returned(t, outcome) == [caller EXCEPT ![t] = [NoCall EXCEPT !.outcome = outcome]]

\* ensure_loaded up to the lock: the unlocked test of _model_loaded; timeout
\* tells whether the call was given one, via names the caller
ensure_loaded_begin(t, timeout, via) ==
    /\ caller[t].pc = "idle"
    /\ caller' = IF model_loaded
                 THEN Returned(t, IF via = "ensure_loaded" THEN "ready" ELSE "proceeded")
                 ELSE [caller EXCEPT ![t] = [pc |-> "acquire", timeout |-> timeout,
                                            acquired |-> FALSE, via |-> via,
                                            outcome |-> "none"]]
    /\ UNCHANGED <<load_lock, loading_in_progress, whisperVars>>
    /\ UNCHANGED outsideLoadVars

\* a thread calls ensure_loaded itself, with or without a timeout
ensure_loaded_call(t, timeout) == ensure_loaded_begin(t, timeout, "ensure_loaded")

\* the timeout argument of the ensure_loaded call in transcribe_audio: none
transcribe_audio_timeout == FALSE

\* transcribe_audio up to the lock of ensure_loaded
transcribe_audio_begin(t) ==
    IF ~transcription_enabled
    THEN /\ caller[t].pc = "idle"
         /\ caller' = Returned(t, "disabled")
         /\ UNCHANGED <<load_lock, loading_in_progress, whisperVars>>
         /\ UNCHANGED outsideLoadVars
    ELSE ensure_loaded_begin(t, transcribe_audio_timeout, "transcribe_audio")

\* the lock taken without a second look at _model_loaded
ensure_loaded_acquire_unchecked(t) ==
    /\ caller[t].pc = "acquire"
    /\ load_lock = "none"
    /\ load_lock' = t
    /\ caller' = [caller EXCEPT ![t].acquired = TRUE, ![t].pc = "loading"]
    /\ loading_in_progress' = TRUE
    /\ model_loads' = model_loads + 1
    /\ UNCHANGED model_loaded
    /\ UNCHANGED outsideLoadVars

\* ensure_loaded: _load_lock.acquire returns with the lock, _model_loaded is
\* tested again and, when it is still unset, the load begins
ensure_loaded_acquire(t) ==
    /\ caller[t].pc = "acquire"
    /\ load_lock = "none"
    /\ load_lock' = t
    /\ IF model_loaded
       THEN /\ caller' = [caller EXCEPT ![t].acquired = TRUE, ![t].pc = "finally",
                                        ![t].outcome = "ready_after_wait"]
            /\ UNCHANGED <<loading_in_progress, whisperVars>>
       ELSE /\ caller' = [caller EXCEPT ![t].acquired = TRUE, ![t].pc = "loading"]
            /\ loading_in_progress' = TRUE
            /\ model_loads' = model_loads + 1
            /\ UNCHANGED model_loaded
    /\ UNCHANGED outsideLoadVars

\* ensure_loaded: _load_lock.acquire(timeout=timeout) returns False, the lock
\* having been held by another thread for the whole timeout
ensure_loaded_timeout(t) ==
    /\ caller[t].pc = "acquire"
    /\ caller[t].timeout
    /\ load_lock # "none"
    /\ caller' = [caller EXCEPT ![t].pc = "finally", ![t].outcome = "TimeoutError"]
    /\ UNCHANGED <<load_lock, loading_in_progress, whisperVars>>
    /\ UNCHANGED outsideLoadVars

\* ensure_loaded: _load_model returns, with the model or without it
load_model(t, success) ==
    /\ caller[t].pc = "loading"
    /\ ~success => model_loads <= MaxLoads
    /\ model_loaded' = (model_loaded \/ success)
    /\ caller' = [caller EXCEPT ![t].pc = "finally",
                                ![t].outcome = IF success THEN "loaded" ELSE "RuntimeError"]
    /\ UNCHANGED <<load_lock, loading_in_progress, model_loads>>
    /\ UNCHANGED outsideLoadVars

\* what the caller of ensure_loaded makes of its outcome: transcribe_audio
\* turns the exceptions into failure results and goes on otherwise
call_outcome(via, outcome) ==
    IF via = "ensure_loaded" THEN outcome
    ELSE IF outcome = "TimeoutError" THEN "load_timed_out"
    ELSE IF outcome = "RuntimeError" THEN "load_failed"
    ELSE "proceeded"

\* ensure_loaded: the finally block, and the return to the caller
ensure_loaded_finally(t) ==
    /\ caller[t].pc = "finally"
    /\ loading_in_progress' = FALSE
    /\ load_lock' = IF caller[t].acquired THEN "none" ELSE load_lock
    /\ caller' = Returned(t, call_outcome(caller[t].via, caller[t].outcome))
    /\ UNCHANGED whisperVars
    /\ UNCHANGED outsideLoadVars

\* WhisperProcessor.get_status: the status, loaded and loading entries
get_status ==
    [status |-> IF loading_in_progress THEN "loading"
                ELSE IF model_loaded THEN "ready" ELSE "not_loaded",
     loaded |-> model_loaded,
     loading |-> loading_in_progress]

NextLoad ==
    \/ \E t \in Threads, timeout \in BOOLEAN : ensure_loaded_call(t, timeout)
    \/ \E t \in Threads : transcribe_audio_begin(t)
    \/ \E t \in Threads : ensure_loaded_acquire(t)
    \/ \E t \in Threads : ensure_loaded_timeout(t)
    \/ \E t \in Threads, success \in BOOLEAN : load_model(t, success)
    \/ \E t \in Threads : ensure_loaded_finally(t)

SpecLoad == Init /\ [][NextLoad]_vars

\* ================================================================ claims

\* C1: in every reachable state of a run driven by process_audio_file, for
\* every call id, a step other than upload is never running or completed
\* while an earlier step of the fixed order is still pending (not recorded).
C1_StepOrderRespected ==
    \A c \in Calls : \A i \in 2..Len(Steps) :
        StatusOf(c, Steps[i]) \in {"running", "completed"} =>
            \A j \in 1..(i - 1) : StatusOf(c, Steps[j]) # "pending"

\* a run whose last step is running, with every earlier step recorded
C1_Witness ==
    \E c \in Calls :
        /\ StatusOf(c, "database_storage") = "running"
        /\ StatusOf(c, "audio_processing") = "completed"

\* C2: whenever a step of process_audio_file raises an exception E (the one
\* fail_step records for the step), the exception process_audio_file raises
\* to its caller is E, also when the update_call_status(call_id, "failed")
\* made while handling E raises.
C2_OriginalErrorReraised ==
    \A c \in Calls :
        pc[c] = "raised" => raised[c] = step_errors[c][cur_step[c]].error

\* C3: _retry_operation with max_retries >= 0 never invokes the operation
\* more than max_retries + 1 times; when the operation raises k <= max_retries
\* times and then succeeds, the call returns the result of invocation k + 1
\* after exactly k + 1 invocations (it gives up only after max_retries + 1
\* failures), and it never invokes the operation again after a success.
C3_RetryReturnsAfterKFailures ==
    /\ [](\A c \in Calls :
            LET f == retry[c] IN
            /\ f.invocations <= f.max_retries + 1
            /\ f.outcome = "returned" =>
                   /\ f.failed <= f.max_retries
                   /\ f.invocations = f.failed + 1
                   /\ f.value = [kind |-> "ok", at |-> f.failed]
            /\ f.outcome = "raised" => f.failed = f.max_retries + 1)
    /\ [][\A c \in Calls :
            retry[c].outcome = "returned" =>
                retry'[c].invocations = retry[c].invocations]_vars

\* a call that succeeded on its last permitted attempt, after two or more failures
C3_Witness ==
    \E c \in Calls :
        /\ retry[c].outcome = "returned"
        /\ retry[c].failed = retry[c].max_retries
        /\ retry[c].max_retries >= 2

\* C4: when the operation raises on all max_retries + 1 invocations,
\* _retry_operation raises the error of the last invocation, after exactly
\* max_retries backoff waits and without a wait after the last failure; the
\* enclosing step is then recorded failed with that error.
C4_ExhaustedRetriesRaiseLastError ==
    \A c \in Calls :
        LET f == retry[c]
            last == [kind |-> f.name, at |-> f.max_retries]
        IN  f.outcome = "raised" =>
                /\ f.invocations = f.max_retries + 1
                /\ Len(f.waits) = f.max_retries
                /\ pc[c] = "retry_raise" => (running = c /\ err[c] = last)
                /\ pc[c] # "retry_raise" =>
                       /\ StatusOf(c, cur_step[c]) = "failed"
                       /\ step_errors[c][cur_step[c]].error = last

\* a run that ended because a wrapped operation used up its retries
C4_Witness ==
    \E c \in Calls :
        /\ retry[c].outcome = "raised"
        /\ pc[c] = "raised"
        /\ Len(retry[c].waits) >= 2

\* C5: the wait after the failed invocation number `attempt` (from 0) is
\* 2^attempt time units, so the waits of one call are 1, 2, 4, ... and
\* strictly increase.
C5_BackoffWaitsArePowersOfTwo ==
    \A c \in Calls :
        LET w == retry[c].waits IN
        /\ \A i \in 1..Len(w) : w[i] = 2 ^ (i - 1)
        /\ \A i \in 2..Len(w) : w[i] > w[i - 1]
        /\ pc[c] = "retry_sleep" => Len(w) = retry[c].attempt + 1

\* a call that has waited three times: 1, 2 and 4 time units
C5_Witness ==
    \E c \in Calls : retry[c].waits = <<1, 2, 4>>

\* the tracker records of one call, or "none" for an unknown call id
RecordsOf(c) ==
    IF c \in DOMAIN step_status
    THEN <<step_status[c], step_timings[c], step_errors[c], step_results[c]>>
    ELSE <<"none">>

\* C6: when step k of a run fails, every step before k is completed with its
\* timing, no step after k is recorded, get_pipeline_status reports overall
\* status failed, and from then on the tracker records of that call never
\* change.
C6_FailedRunIsFrozen ==
    /\ [](\A c \in DOMAIN step_status : \A k \in 1..Len(Steps) :
            StatusOf(c, Steps[k]) = "failed" =>
                /\ \A j \in 1..(k - 1) :
                       /\ StatusOf(c, Steps[j]) = "completed"
                       /\ step_timings[c][Steps[j]].end_time # None
                       /\ step_timings[c][Steps[j]].duration_seconds # None
                /\ \A j \in (k + 1)..Len(Steps) : StatusOf(c, Steps[j]) = "pending"
                /\ get_pipeline_status(c).overall_status = "failed")
    /\ [][\A c \in DOMAIN step_status :
            "failed" \in StatusValues(c) => RecordsOf(c)' = RecordsOf(c)]_vars

\* a run that failed in transcription after two completed steps, while the
\* tracker also holds the records of another call
C6_Witness ==
    \E c \in Calls, d \in Calls :
        /\ c # d
        /\ pc[c] = "raised"
        /\ StatusOf(c, "transcription") = "failed"
        /\ StatusOf(c, "audio_processing") = "completed"
        /\ StatusOf(d, "upload") = "completed"
        /\ now > step_timings[c]["transcription"].end_time

\* C7: once process_audio_file has written status completed or failed through
\* update_call_status, it never afterwards writes a different status for
\* that call.
C7_PersistedTerminalStatusStays ==
    \A c \in Calls : \A i \in 1..Len(db_status[c]) :
        db_status[c][i] \in {"completed", "failed"} =>
            \A j \in i..Len(db_status[c]) : db_status[c][j] = db_status[c][i]

\* a call whose status failed was written a second time after the first
C7_Witness ==
    \E c \in Calls :
        LET n == Len(db_status[c]) IN
        /\ pc[c] = "raised"
        /\ n >= 3
        /\ db_status[c][n - 1] = "failed"
        /\ db_status[c][n] = "failed"

\* the statuses of the Call data model, in the order of its state machine
CallStatuses == <<"created", "uploading", "processing", "transcribing", "storing", "completed">>

\* the statuses the steps write, in step order
WrittenStatuses == <<"uploaded", "processing", "transcribing", "completed">>

\* the written statuses of a call other than failed, in the order written
RECURSIVE NonFailed(_)
NonFailed(seq) ==
    IF seq = <<>> THEN <<>>
    ELSE IF Head(seq) = "failed" THEN NonFailed(Tail(seq))
    ELSE <<Head(seq)>> \o NonFailed(Tail(seq))

\* seq holds values of order only, at strictly increasing positions of order
FollowsOrder(seq, order) ==
    /\ \A i \in 1..Len(seq) : \E k \in 1..Len(order) : order[k] = seq[i]
    /\ \A i \in 1..Len(seq) : \A j \in (i + 1)..Len(seq) :
           \A k \in 1..Len(order) : \A l \in 1..Len(order) :
               (order[k] = seq[i] /\ order[l] = seq[j]) => k < l

\* C8 as stated: every status written is one of created, uploading,
\* processing, transcribing, storing, completed, failed, and the statuses
\* other than failed follow that order without going backwards.
C8_StatusesFollowCallStateMachine ==
    \A c \in Calls : FollowsOrder(NonFailed(db_status[c]), CallStatuses)

\* C8 as amended: every status written is one of uploaded, processing,
\* transcribing, completed, failed; the statuses other than failed are
\* written in the order uploaded, processing, transcribing, completed
\* without going backwards; failed is only ever followed by failed.
C8_StatusesFollowWrittenOrder ==
    \A c \in Calls :
        /\ FollowsOrder(NonFailed(db_status[c]), WrittenStatuses)
        /\ \A i \in 1..Len(db_status[c]) : \A j \in i..Len(db_status[c]) :
               db_status[c][i] = "failed" => db_status[c][j] = "failed"

\* a call that went through three statuses and then to failed
C8_Witness ==
    \E c \in Calls :
        db_status[c] = <<"uploaded", "processing", "transcribing", "failed", "failed">>

\* the overall status rule of the PipelineRun data model
ReferenceOverallStatus(step_map) ==
    LET recorded == DOMAIN step_map IN
    CASE \E s \in recorded : step_map[s] = "failed" -> "failed"
      [] /\ \A s \in recorded : step_map[s] # "failed"
         /\ \E s \in recorded : step_map[s] = "running" -> "running"
      [] \A s \in recorded : step_map[s] = "completed" -> "completed"
      [] OTHER -> "partial"

\* C9: get_pipeline_status for a known call returns the overall status the
\* rule gives for the recorded step statuses: failed if any step is failed,
\* else running if any is running, else completed if all are completed,
\* else partial.
C9_OverallStatusFollowsRule ==
    status_reply.found =>
        status_reply.overall_status = ReferenceOverallStatus(status_reply.step_status)

\* a status query answered for a call with a failed step and a running step
C9_Witness ==
    /\ status_reply.found
    /\ status_reply.overall_status = "failed"
    /\ \E s \in DOMAIN status_reply.step_status : status_reply.step_status[s] = "running"

\* C10: after fail_step on a started step the status of that (call_id, step)
\* pair is failed and stays failed under any later start_step, complete_step,
\* fail_step and get_pipeline_status calls.
C10_FailedStepStaysFailed ==
    [][\A c \in Calls : \A s \in StepNames :
          StatusOf(c, s) = "failed" => StatusOf(c, s)' = "failed"]_vars

\* the step map of a run that went through the steps up to `last` and left
\* that step with status `outcome`
StepMapUpTo(last, outcome) ==
    LET k == CHOOSE i \in 1..Len(Steps) : Steps[i] = last
    IN  [s \in {Steps[j] : j \in 1..k} |-> IF s = last THEN outcome ELSE "completed"]

\* C11: with two runs in flight on one orchestrator, under every
\* interleaving of their steps and backoff waits, a step that changes the
\* tracker records of one call is a step of that call's run and leaves the
\* statuses, timings, errors and results of the other call unchanged; and the
\* final step map and overall status of a call are those its own run
\* produces: all four steps completed for a run that returned, the steps
\* before the failing one completed and that one failed for a run that raised.
C11_ConcurrentRunsAreIndependent ==
    /\ [][\A c \in Calls :
            RecordsOf(c)' # RecordsOf(c) =>
                /\ pc'[c] # pc[c]
                /\ \A d \in Calls \ {c} :
                       RecordsOf(d)' = RecordsOf(d) /\ pc'[d] = pc[d]]_vars
    /\ [](\A c \in Calls :
            /\ pc[c] = "returned" =>
                   /\ step_status[c] = StepMapUpTo("database_storage", "completed")
                   /\ get_overall_status(c) = "completed"
            /\ pc[c] = "raised" =>
                   /\ step_status[c] = StepMapUpTo(cur_step[c], "failed")
                   /\ get_overall_status(c) = "failed")

\* one run returned and the other raised in audio_processing; the second
\* was between the start of its upload and the start of its audio_processing
\* when the first woke from a backoff wait inside its own audio_processing
C11_Witness ==
    \E c \in Calls, d \in Calls :
        /\ pc[c] = "returned"
        /\ pc[d] = "raised"
        /\ cur_step[d] = "audio_processing"
        /\ step_timings[c]["audio_processing"].duration_seconds = 1
        /\ step_timings[d]["upload"].start_time = 0
        /\ step_timings[d]["audio_processing"].start_time = 1

\* C12: while a run is inside the backoff wait of _retry_operation, every
\* other run that is idle or in flight and not itself in a backoff wait is
\* able to take its next step: the sleeping run does not hold the event loop.
C12_BackoffDoesNotBlockOthers ==
    \A c \in Calls : \A d \in Calls \ {c} :
        (pc[c] = "retry_sleep" /\ pc[d] \notin {"returned", "raised", "retry_sleep"})
            => (running # c /\ ENABLED RunStep(d))

\* one run in its backoff wait while the other awaits the update that
\* completes its upload step
C12_Witness ==
    \E c \in Calls, d \in Calls :
        /\ pc[c] = "retry_sleep"
        /\ now < retry[c].wake
        /\ pc[d] = "await_status_uploaded"
        /\ ENABLED status_uploaded(d, "ok")

\* C13: while a run is in a collaborator call made through _retry_operation
\* (the call operation_func() of the loop), every other run that is in
\* flight and not in a backoff wait is able to take its next step.
C13_CollaboratorCallDoesNotBlockOthers ==
    \A c \in Calls : \A d \in Calls \ {c} :
        (pc[c] = "retry_attempt" /\ pc[d] \notin {"idle", "returned", "raised", "retry_sleep"})
            => ENABLED RunStep(d)

\* the ValueError _step_upload raises for is_valid False
ValidationError == [kind |-> "ValueError", at |-> 0]

\* validate_upload reported is_valid False in run c
InvalidUpload(c) ==
    \/ err[c] = ValidationError
    \/ /\ c \in DOMAIN step_errors
       /\ "upload" \in DOMAIN step_errors[c]
       /\ step_errors[c]["upload"].error = ValidationError

\* C14: in a run whose validate_upload reported is_valid False,
\* validate_upload has been invoked exactly once, save_audio_file and
\* create_call_record never, no step after upload is recorded, the upload
\* step is recorded failed with the validation error as soon as the except
\* block has run, and the run never returns: it ends by raising.
C14_InvalidUploadRaisesAtOnce ==
    \A c \in Calls :
        InvalidUpload(c) =>
            /\ invoked[c]["validate_upload"] = 1
            /\ invoked[c]["save_audio_file"] = 0
            /\ invoked[c]["create_call_record"] = 0
            /\ \A i \in 2..Len(Steps) : StatusOf(c, Steps[i]) = "pending"
            /\ pc[c] \in {"step_except", "await_status_failed", "pipeline_except",
                          "await_handle_error", "raised"}
            /\ pc[c] # "step_except" =>
                   /\ StatusOf(c, "upload") = "failed"
                   /\ step_errors[c]["upload"].error = ValidationError
            /\ result[c] = NoReply
            /\ pc[c] = "raised" => raised[c] # NoError

\* a run that raised to its caller after an invalid upload
C14_Witness ==
    \E c \in Calls :
        /\ InvalidUpload(c)
        /\ pc[c] = "raised"
        /\ raised[c] = ValidationError

\* every step of the fixed order completed
AllStepsCompleted == StepMapUpTo("database_storage", "completed")

\* C15: when no collaborator call fails, every started process_audio_file
\* run terminates by returning; the summary it returns has pipeline status
\* completed, and at that point the tracker (and the timeline in the summary)
\* shows upload, audio_processing, transcription and database_storage
\* completed and overall status completed.
C15_AllSucceedRunCompletes ==
    /\ \A c \in Calls : (pc[c] # "idle") ~> (pc[c] = "returned")
    /\ [](\A c \in Calls :
            pc[c] = "returned" =>
                /\ raised[c] = NoError
                /\ result[c].pipeline_status = "completed"
                /\ result[c].processing_timeline.step_status = AllStepsCompleted
                /\ result[c].processing_timeline.overall_status = "completed"
                /\ step_status[c] = AllStepsCompleted
                /\ get_pipeline_status(c).overall_status = "completed")

\* both runs returned, the model was loaded by the first transcription
C15_Witness ==
    /\ \A c \in Calls : pc[c] = "returned" /\ step_results[c]["transcription"] = "ok"
    /\ model_loads = 1

\* C16: with the transcription flag off and every other collaborator
\* succeeding, transcribe_audio returns a result with transcription_success
\* False without raising and no model load ever starts; _retry_operation
\* invokes it exactly once; the database_storage step is started afterwards
\* and the run returns with all steps completed, overall status completed.
C16_DisabledTranscriptionStillCompletes ==
    /\ \A c \in Calls : (pc[c] # "idle") ~> (pc[c] = "returned")
    /\ \A c \in Calls :
           (retry[c].name = "transcription" /\ retry[c].outcome = "returned")
               ~> (StatusOf(c, "database_storage") = "running")
    /\ [](/\ model_loads = 0
          /\ ~model_loaded
          /\ \A c \in Calls :
                /\ (retry[c].name = "transcription" /\ retry[c].invocations > 0) =>
                       /\ retry[c].invocations = 1
                       /\ retry[c].failed = 0
                       /\ retry[c].outcome = "returned"
                       /\ retry[c].value.kind = "disabled"
                /\ StatusOf(c, "transcription") = "completed" =>
                       step_results[c]["transcription"] = "disabled"
                /\ StatusOf(c, "transcription") # "failed"
                /\ pc[c] = "returned" =>
                       /\ step_status[c] = AllStepsCompleted
                       /\ get_pipeline_status(c).overall_status = "completed"
                       /\ db_status[c][Len(db_status[c])] = "completed")

\* a run that returned although its transcription was disabled
C16_Witness ==
    \E c \in Calls :
        /\ pc[c] = "returned"
        /\ ~transcription_enabled
        /\ step_results[c]["transcription"] = "disabled"
        /\ result[c].pipeline_status = "completed"

\* C17: when in each run one wrapped audio operation raises on its first
\* two invocations and succeeds on its third, and every other collaborator
\* call succeeds, the run returns with all four steps completed, and the
\* recorded duration of audio_processing is at least 1 + 2 = 3 time units.
C17_TransientFaultStillCompletes ==
    /\ \A c \in Calls : (pc[c] # "idle") ~> (pc[c] = "returned")
    /\ [](\A c \in Calls :
            /\ pc[c] # "raised"
            /\ pc[c] = "returned" =>
                   /\ step_status[c] = AllStepsCompleted
                   /\ get_pipeline_status(c).overall_status = "completed"
                   /\ step_timings[c]["audio_processing"].duration_seconds >= 3)

\* a run that returned after waiting 1 and 2 time units in audio_conversion
C17_Witness ==
    \E c \in Calls :
        /\ pc[c] = "returned"
        /\ faulty_operation = "audio_conversion"
        /\ step_timings[c]["audio_processing"].duration_seconds = 3
        /\ failures >= 2

\* C18: a status request for the call id of a run that returned with all
\* steps completed finds the run and reports overall status completed.
C18_StatusEndpointFindsFinishedRun ==
    [][\A c \in Calls :
          (pc[c] = "returned" /\ get_pipeline_status_endpoint(c)) =>
              /\ status_reply'.found
              /\ status_reply'.overall_status = "completed"]_vars

\* C19: for every live session, the n-th successful add_raw_chunk (n from
\* 1) returned index n - 1 and stored exactly one chunk reference, named
\* after that index, at position n; no index was returned twice; and no
\* call reorders, replaces or removes a chunk reference already stored.
C19_ChunkIndicesAreSequential ==
    /\ [](\A sid \in DOMAIN sessions :
            LET chunks == sessions[sid].chunks
                returned == chunk_indices[sid]
            IN  /\ Len(returned) = Len(chunks)
                /\ \A n \in 1..Len(returned) :
                       returned[n] = n - 1 /\ chunks[n].chunk = n - 1
                /\ \A m \in 1..Len(returned) : \A n \in 1..Len(returned) :
                       m # n => returned[m] # returned[n])
    /\ [][\A sid \in DOMAIN sessions :
            LET before == sessions[sid].chunks
                after == sessions'[sid].chunks
            IN  /\ sid \in DOMAIN sessions'
                /\ Len(after) \in {Len(before), Len(before) + 1}
                /\ SubSeq(after, 1, Len(before)) = before
                /\ Len(after) = Len(before) + 1 =>
                       /\ live_reply' = LiveReply("add_raw_chunk", sid, "ok", Len(before))
                       /\ \A other \in DOMAIN sessions \ {sid} :
                              sessions'[other] = sessions[other]]_vars

\* a session that was just given its second chunk, next to another session
\* that holds a chunk of its own
C19_Witness ==
    \E sid \in DOMAIN sessions, other \in DOMAIN sessions :
        /\ other # sid
        /\ chunk_indices[sid] = <<0, 1>>
        /\ chunk_indices[other] = <<0>>
        /\ live_reply = LiveReply("add_raw_chunk", sid, "ok", 1)

\* C20: in every state reached by start, add_raw_chunk, set_partial and
\* stop calls, every session has at least as many partial slots as chunks.
C20_PartialsCoverChunks ==
    \A sid \in DOMAIN sessions :
        Len(sessions[sid].partials) >= Len(sessions[sid].chunks)

\* a session whose chunks were added with no set_partial call in between
C20_Witness ==
    \E sid \in DOMAIN sessions :
        /\ Len(sessions[sid].chunks) = 2
        /\ sessions[sid].partials = <<<<>>, <<>>>>
        /\ live_reply.op = "stop"

\* the texts of the non-empty slots 1..n of p in increasing index order,
\* separated by single spaces
RECURSIVE IndexOrderJoin(_, _)
IndexOrderJoin(p, n) ==
    IF n = 0 THEN <<>>
    ELSE IF p[n] = <<>> THEN IndexOrderJoin(p, n - 1)
    ELSE IF \A i \in 1..(n - 1) : p[i] = <<>> THEN p[n]
    ELSE IndexOrderJoin(p, n - 1) \o <<" ">> \o p[n]

\* t without its leading and trailing spaces
Trimmed(t) ==
    LET inked == {i \in 1..Len(t) : t[i] # " "}
    IN  IF inked = {} THEN <<>>
        ELSE SubSeq(t, CHOOSE i \in inked : \A j \in inked : i <= j,
                       CHOOSE i \in inked : \A j \in inked : i >= j)

\* the reply in live_reply is that of a stop that found its session
StopReplied == live_reply.op = "stop" /\ live_reply.outcome = "ok"

\* C21 (as stated): the final text stop returns is the join of the non-empty
\* partials of the session in increasing index order, empty slots skipped,
\* whatever the order in which set_partial filled the slots.
C21_StopReturnsIndexOrderJoin ==
    StopReplied =>
        LET p == sessions[live_reply.session_id].partials
        IN  live_reply.value = IndexOrderJoin(p, Len(p))

\* C21 (amended): the final text stop returns is the join of the non-empty
\* partials in increasing index order, empty slots skipped, with the leading
\* and trailing whitespace of the joined text removed.
C21_StopReturnsTrimmedIndexOrderJoin ==
    StopReplied =>
        LET p == sessions[live_reply.session_id].partials
        IN  live_reply.value = Trimmed(IndexOrderJoin(p, Len(p)))

\* a stop answered for a session with two chunks whose two partials are both
\* filled, the first of them starting with a space
C21_Witness ==
    /\ StopReplied
    /\ Len(sessions[live_reply.session_id].chunks) = 2
    /\ sessions[live_reply.session_id].partials = << <<" ", "b">>, <<"a">> >>
    /\ live_reply.value = <<"b", " ", "a">>

\* what set_partial(sid, idx, text) has to leave behind, for idx >= 0
SetPartialEffect(sid, idx, text) ==
    LET old == sessions[sid].partials
        new == sessions'[sid].partials
    IN  /\ DOMAIN sessions' = DOMAIN sessions
        /\ Len(new) = (IF Len(old) > idx + 1 THEN Len(old) ELSE idx + 1)
        /\ new[idx + 1] = text
        /\ \A i \in 1..Len(new) :
               i # idx + 1 => new[i] = (IF i <= Len(old) THEN old[i] ELSE <<>>)
        /\ sessions'[sid].chunks = sessions[sid].chunks

\* C22: set_partial(session_id, index, text) on a known session with
\* index >= 0 leaves partials[index] = text, the length of partials at
\* max(old length, index + 1), the empty string in every slot the growth
\* created other than index, every other slot as it was and the chunk list
\* unchanged; a slot that already held a text is overwritten.
C22_SetPartialFrame ==
    [][\A sid \in DOMAIN sessions, idx \in 0..MaxIndex, text \in Texts :
           (live_reply'.op = "set_partial" /\ LiveSetPartial(sid, idx, text)) =>
               SetPartialEffect(sid, idx, text)]_vars

\* set_partial has grown the partials of a session without chunks by two
\* slots, the first left empty and the second holding its text
C22_Witness ==
    /\ live_reply.op = "set_partial" /\ live_reply.outcome = "ok"
    /\ sessions[live_reply.session_id].chunks = <<>>
    /\ sessions[live_reply.session_id].partials = << <<>>, <<"a">> >>

\* some call on the manager with the session id sid
LiveCallOn(sid) ==
    \/ /\ live_reply'.op = "add_raw_chunk"
       /\ \E suffix \in Suffixes, moved \in BOOLEAN : LiveAddChunk(sid, suffix, moved)
    \/ /\ live_reply'.op = "set_partial"
       /\ \E idx \in (0 - 1)..MaxIndex, text \in Texts \cup {NoText} :
              LiveSetPartial(sid, idx, text)
    \/ /\ live_reply'.op = "stop"
       /\ LiveStop(sid)

\* C23: add_raw_chunk, set_partial and stop called with a session id that
\* start never returned each fail with the session-not-found error (KeyError)
\* and leave the set of sessions and every session's chunks and partials
\* unchanged.
C23_UnknownSessionFailsWithoutEffect ==
    [][\A sid \in SessionIds \ DOMAIN sessions :
           LiveCallOn(sid) =>
               /\ live_reply'.session_id = sid
               /\ live_reply'.outcome = "KeyError"
               /\ sessions' = sessions]_vars

\* a stop on an unknown id answered with the error while another session
\* holds a chunk and a partial
C23_Witness ==
    /\ live_reply.op = "stop" /\ live_reply.outcome = "KeyError"
    /\ live_reply.session_id \notin DOMAIN sessions
    /\ \E sid \in DOMAIN sessions :
           /\ Len(sessions[sid].chunks) = 1
           /\ sessions[sid].partials = << <<"a">> >>

\* C24: stop changes no state: the session stays registered with its chunks
\* and partials, so a stop that directly follows a stop of the same session
\* returns the same final text.
C24_StopChangesNoState ==
    [][\A sid \in DOMAIN sessions :
           (live_reply'.op = "stop" /\ LiveStop(sid)) =>
               /\ sessions' = sessions
               /\ (StopReplied /\ live_reply.session_id = sid) =>
                      live_reply'.value = live_reply.value]_vars

\* a stop has returned a text of two partials and the session still holds
\* its chunks and partials
C24_Witness ==
    /\ StopReplied
    /\ live_reply.value = <<"a", " ", " ", "b">>
    /\ Len(sessions[live_reply.session_id].chunks) = 2
    /\ sessions[live_reply.session_id].partials = << <<"a">>, <<" ", "b">> >>

\* the events of the bus the stream of client u has sent, in order
Delivered(u) ==
    LET sent == SelectSeq(streams[u].emitted, LAMBDA e : e.event # "ping")
    IN  [i \in 1..Len(sent) |-> sent[i].data]

\* the events published for the key of client u since it subscribed
PublishedSince(u) ==
    SubSeq(published[streams[u].key], streams[u].joined_at + 1,
           Len(published[streams[u].key]))

\* events up to and including the first complete event among them
UpToComplete(events) ==
    LET ends == {i \in 1..Len(events) : events[i].type = "complete"}
    IN  IF ends = {} THEN events
        ELSE SubSeq(events, 1, CHOOSE i \in ends : \A j \in ends : i <= j)

\* client u has called subscribe
Subscribed(u) == streams[u].state \in {"subscribed", "ended"}

\* client u subscribed after a complete event of its key was published
LateJoin(u) ==
    /\ Subscribed(u)
    /\ \E i \in 1..streams[u].joined_at : published[streams[u].key][i].type = "complete"

\* client u subscribed while its key was still open
Registered(u) == Subscribed(u) /\ ~LateJoin(u)

\* what client u has been sent or has waiting in its buffer
Stream(u) == UpToComplete(Delivered(u) \o streams[u].queue)

\* C25: two subscribers registered for the same key before the same publishes
\* are each handed every event published since, in the order published (up
\* to the complete event), so their sequences are identical and no event one
\* of them gets is withheld from the other.
C25_FanOutToEverySubscriber ==
    \A u, v \in Clients :
        (/\ u # v
         /\ Registered(u) /\ Registered(v)
         /\ streams[u].key = streams[v].key
         /\ streams[u].joined_at = streams[v].joined_at)
        => /\ Stream(u) = UpToComplete(PublishedSince(u))
           /\ Stream(v) = UpToComplete(PublishedSince(v))
           /\ Stream(u) = Stream(v)
           /\ \A i \in 1..Len(Delivered(u)) : Delivered(u)[i] = Stream(v)[i]

\* both clients registered for k1 before anything was published and have
\* each been sent the same two partials
C25_Witness ==
    /\ streams["u1"].key = "k1" /\ streams["u2"].key = "k1"
    /\ streams["u1"].joined_at = 0 /\ streams["u2"].joined_at = 0
    /\ Delivered("u1") = <<Event("partial", 1), Event("partial", 2)>>
    /\ Delivered("u2") = <<Event("partial", 1), Event("partial", 2)>>

\* the complete events among the events
Completes(events) == {i \in 1..Len(events) : events[i].type = "complete"}

\* C26 (safety): a registered subscriber is sent the complete event at most
\* once and nothing after it, its sequence is over once it was sent, and its
\* sequence is not over before a complete event was published and sent.
C26_EndsOnlyByComplete ==
    \A u \in Clients :
        Registered(u) =>
            LET sent == Delivered(u)
            IN  /\ Cardinality(Completes(sent)) <= 1
                /\ Completes(sent) \subseteq {Len(sent)}
                /\ (Completes(sent) # {}) <=> (streams[u].state = "ended")
                /\ streams[u].state = "ended" =>
                       Completes(PublishedSince(u)) # {}

\* C26: for every subscriber registered for a key when complete(key) is
\* published, the sequence delivers the complete event exactly once,
\* delivers nothing after it and then ends; before a complete event is
\* published the sequence does not end.
C26_CompleteEndsTheSequence ==
    /\ []C26_EndsOnlyByComplete
    /\ \A u \in Clients :
           (Registered(u) /\ Completes(PublishedSince(u)) # {})
               ~> (/\ streams[u].state = "ended"
                   /\ Completes(Delivered(u)) = {Len(Delivered(u))})

\* a subscriber was sent a partial and the complete event and is over, and
\* the partial published for its key afterwards was not sent to it
C26_Witness ==
    \E u \in Clients :
        /\ Registered(u)
        /\ streams[u].state = "ended"
        /\ Delivered(u) = <<Event("partial", 1), Event("complete", 2)>>
        /\ published[streams[u].key] =
               <<Event("partial", 1), Event("complete", 2), Event("partial", 3)>>

\* C27: a subscriber that subscribes to a key after its complete event was
\* published is sent no event and its sequence is over (it does not wait),
\* and no subscriber is ever sent or buffered an event published before it
\* subscribed.
C27_LateJoinEndsEmpty ==
    \A u \in Clients :
        /\ LateJoin(u) =>
               /\ streams[u].state = "ended"
               /\ Delivered(u) = <<>>
               /\ streams[u].queue = <<>>
        /\ Subscribed(u) =>
               \A i \in 1..Len(Delivered(u) \o streams[u].queue) :
                   (Delivered(u) \o streams[u].queue)[i].seq > streams[u].joined_at

\* a client subscribed after a partial and the complete event of its key and
\* a further partial was published since: it has been sent the ping only
C27_Witness ==
    \E u \in Clients :
        /\ LateJoin(u)
        /\ streams[u].joined_at = 2
        /\ Len(published[streams[u].key]) = 3
        /\ Len(streams[u].emitted) = 1

\* C28: on every subscription through the stream endpoint the first event
\* sent to the client is a ping, sent before the subscription starts and so
\* before any partial or complete event of the key, whatever was published
\* in the meantime.
C28_PingComesFirst ==
    \A u \in Clients :
        /\ streams[u].emitted # <<>> => streams[u].emitted[1].event = "ping"
        /\ Subscribed(u) => streams[u].emitted # <<>>

\* a client whose key had events published before and after it subscribed has
\* been sent the ping and then the partial published after it subscribed
C28_Witness ==
    \E u \in Clients :
        /\ streams[u].joined_at = 1
        /\ Len(streams[u].emitted) = 2
        /\ streams[u].emitted[1] = sse_format("ping", Event("ping", 0))
        /\ streams[u].emitted[2] = sse_format("partial", Event("partial", 2))

\* the threads executing the model load
Loading == {t \in Threads : caller[t].pc = "loading"}

\* C29: under any interleaving of concurrent ensure_loaded callers at most
\* one caller is executing the model load at a time, and once a load has
\* succeeded no later ensure_loaded call begins another load.
C29_OneLoadAtATime ==
    /\ [](Cardinality(Loading) <= 1)
    /\ [][model_loaded => model_loads' = model_loads]_vars

\* a thread that passed the first test of _model_loaded waited for the lock
\* through the only load, which succeeded, and returned without loading
C29_Witness ==
    /\ model_loaded
    /\ model_loads = 1
    /\ \E t \in Threads : caller[t].outcome = "ready_after_wait" /\ caller[t].pc = "finally"

\* C30: a transcription request that waits for the load lock while another
\* caller is loading the model waits with a timeout, so that it returns the
\* load-timed-out failure also when the load in progress never finishes.
C30_WaitingRequestHasTimeout ==
    \A t \in Threads :
        (/\ caller[t].via = "transcribe_audio"
         /\ caller[t].pc = "acquire"
         /\ Loading \ {t} # {})
        => caller[t].timeout

\* C31: get_pipeline_status for a call id start_step was never called for
\* returns the not-found result and leaves the tracker as it is: no record
\* is created for that call id.
C31_UnknownCallIsNotFound ==
    [][\A c \in Calls \ DOMAIN step_status :
           TrackerGetStatus(c) =>
               /\ status_reply' = [call_id |-> c, found |-> FALSE]
               /\ trackerVars' = trackerVars
               /\ c \notin DOMAIN step_status']_vars

\* a query for c2 answered not-found while c1 has a finished step, and c2 is
\* still without any record
C31_Witness ==
    /\ status_reply = [call_id |-> "c2", found |-> FALSE]
    /\ "c2" \notin DOMAIN step_status
    /\ StatusOf("c1", "upload") = "completed"

\* a step of the driver that calls neither start_step, complete_step nor
\* fail_step
NoTrackerMutation == (\E d \in Calls : TrackerGetStatus(d)) \/ TrackerTick

\* C32: get_pipeline_status is read-only: it changes no tracker state, and a
\* query repeated with no start_step, complete_step or fail_step in between
\* returns the same step maps, overall status and total duration, however
\* much time has passed.
C32_StatusQueryIsReadOnly ==
    [][\A c \in Calls :
           /\ NoTrackerMutation =>
                  /\ trackerVars' = trackerVars
                  /\ get_pipeline_status(c)' = get_pipeline_status(c)
           /\ TrackerGetStatus(c) => status_reply' = get_pipeline_status(c)']_vars

\* a query answered for a call with a finished step and a step that has been
\* running for some time, and a query made now would return the same
C32_Witness ==
    /\ status_reply.found
    /\ status_reply = get_pipeline_status(status_reply.call_id)
    /\ status_reply.total_duration = 1
    /\ \E s \in DOMAIN status_reply.step_timings :
           /\ status_reply.step_timings[s].end_time = None
           /\ status_reply.step_timings[s].start_time < now

\* C39: complete_step and fail_step called for a (call_id, step) pair that
\* start_step was never called for record nothing: every tracker map is left
\* unchanged, and the call returns without raising.
C39_UnstartedStepIsIgnored ==
    [][\A c \in Calls, s \in StepNames :
           (StatusOf(c, s) = "pending" /\ (TrackerComplete(c, s) \/ TrackerFail(c, s))) =>
               /\ trackerVars' = trackerVars
               /\ ops' = ops + 1]_vars

\* two tracker calls were made and returned, and nothing is recorded: both
\* were complete_step or fail_step calls for steps never started
C39_Witness ==
    /\ ops = 2
    /\ now = 0
    /\ status_reply = NoReply
    /\ step_status = EmptyMap /\ step_timings = EmptyMap
    /\ step_errors = EmptyMap /\ step_results = EmptyMap

\* the threads between the assignment that sets _loading_in_progress and the
\* finally block of their ensure_loaded call
InLoadSection ==
    {t \in Threads : \/ caller[t].pc = "loading"
                     \/ caller[t].pc = "finally" /\ caller[t].outcome \in {"loaded", "RuntimeError"}}

\* C33: under any interleaving of ensure_loaded callers, those that time out
\* waiting for the lock included, the loading flag get_status reports is
\* true whenever some caller is executing the model load and false whenever
\* none is.
C33_LoadingFlagTracksLoad ==
    /\ Loading # {} => get_status.loading
    /\ get_status.loading => InLoadSection # {}

StepsWith(c, st) ==
    {i \in 1..Len(Steps) : Steps[i] \in DOMAIN step_status[c] /\ step_status[c][Steps[i]] = st}

\* C36: in every reachable state of a run driven by process_audio_file, for
\* every call at most one step is running, at most one step is failed, a
\* failed step is the last step recorded, and every recorded step before a
\* running or failed step is completed.
C36_StepsAdvanceInOrder ==
    \A c \in DOMAIN step_status :
        /\ Cardinality(StepsWith(c, "running")) <= 1
        /\ Cardinality(StepsWith(c, "failed")) <= 1
        /\ \A i \in StepsWith(c, "failed") :
               \A j \in (i + 1)..Len(Steps) : Steps[j] \notin DOMAIN step_status[c]
        /\ \A i \in StepsWith(c, "running") \cup StepsWith(c, "failed") :
               \A j \in 1..(i - 1) :
                   Steps[j] \in DOMAIN step_status[c] => step_status[c][Steps[j]] = "completed"

\* a run that raised with its third step failed after two completed steps
C36_Witness ==
    \E c \in DOMAIN step_status :
        /\ StepsWith(c, "failed") = {3}
        /\ StepsWith(c, "completed") = {1, 2}
        /\ pc[c] = "raised"

\* C38: a live session is closed by stop: once stop(session_id) has returned,
\* no later add_raw_chunk or set_partial for that session changes its chunks
\* or partials, so the text stop returned stays the session's final text.
\* Stated for the call that follows the return of stop.
C38_StopClosesSession ==
    [][\A sid \in DOMAIN sessions :
           (live_reply.op = "stop" /\ live_reply.outcome = "ok" /\ live_reply.session_id = sid)
               => /\ sessions'[sid] = sessions[sid]
                  /\ strip(join_nonempty(sessions'[sid].partials)) = live_reply.value]_vars

\* C34: for every session id, whatever the order of live chunk and live stop
\* requests, no partial event is published under its key after the complete
\* event of that key.
C34_NoPartialAfterComplete ==
    \A sid \in SessionIds :
        LET events == published[stream_key(sid)]
        IN  \A i, j \in 1..Len(events) :
                (i < j /\ events[i].type = "complete") => events[j].type # "partial"

\* two live_chunk requests for one session that were suspended at the same time
Concurrent(r, q) ==
    /\ r # q
    /\ chunk_requests[r].overlapped /\ chunk_requests[q].overlapped
    /\ chunk_requests[r].session_id = chunk_requests[q].session_id

\* the request has returned from add_raw_chunk with an index
Indexed(r) == chunk_requests[r].idx # None

\* C37: two live_chunk requests for one session that are in flight at the same
\* time never get the same index from add_raw_chunk, and once both have added
\* their chunk the session holds two distinct chunk paths at two consecutive
\* indices.
C37_ConcurrentChunksGetDistinctIndices ==
    \A r, q \in Requests :
        (Concurrent(r, q) /\ Indexed(r) /\ Indexed(q)) =>
            LET i == chunk_requests[r].idx
                j == chunk_requests[q].idx
                chunks == sessions[chunk_requests[r].session_id].chunks
            IN  /\ i # j
                /\ i = j + 1 \/ j = i + 1
                /\ i < Len(chunks) /\ j < Len(chunks)
                /\ chunks[i + 1] # chunks[j + 1]

\* both requests of one session were suspended together and have finished
C37_Witness ==
    /\ Concurrent("r1", "r2")
    /\ chunk_requests["r1"].state = "done"
    /\ chunk_requests["r2"].state = "done"
    /\ chunk_requests["r1"].idx = 1
    /\ chunk_requests["r2"].idx = 0

\* the records of kind k logged for run c
DebugRecordsOf(c, k) == {i \in 1..Len(debug_records[c]) : debug_records[c][i] = k}

====
